---- MODULE Spec2Model ----
(***************************************************************************)
(* Task lifecycle and recovery engine of agent-backend/main.py.            *)
(*                                                                         *)
(* Spec      the engine: the submission path (agent and                    *)
(*           background_task_simulation), execute_task_logic, the recovery *)
(*           monitor (monitor_internet_queue) and the external completion  *)
(*           call (complete_task), as concurrently running threads.  One   *)
(*           step of a thread is what it does up to and including its next *)
(*           operation on the task store; a store operation is one atomic  *)
(*           step, which is what file_lock gives (StoreSpec).              *)
(* FairSpec  Spec with every started thread and the monitor loop running   *)
(*           on.                                                           *)
(* StoreSpec the task store alone: load_tasks, save_task and               *)
(*           update_task_status called concurrently, each step by step     *)
(*           under file_lock.                                              *)
(***************************************************************************)
EXTENDS Integers, Sequences, FiniteSets, TLC

\* Bounds of the model.
MaxTasks == 1
MaxExec == 2
MaxRetries == 2

Tasks == 1..MaxTasks
Slots == 1..MaxExec

\* ------------------------------------------------------------------------
\* Threads: one request handler + background task per submitted task, the
\* executions the monitor starts, one complete call per task.  (The monitor
\* is one more thread; it holds no state between its ticks.)
Bg(t) == <<"bg", t>>
Ex(k) == <<"ex", k>>
Cm(t) == <<"cm", t>>
BgThreads == {Bg(t) : t \in Tasks}
ExThreads == {Ex(k) : k \in Slots}
CmThreads == {Cm(t) : t \in Tasks}
ExecThreads == BgThreads \cup ExThreads
Threads == ExecThreads \cup CmThreads

\* ------------------------------------------------------------------------
\* Data.  A plan is a sequence of text fragments; "" and None are <<>>.
NoRec == [id |-> 0]
NoPlan == <<>>
PlanText == <<"P">>
NoText == [cal |-> FALSE, mail |-> FALSE]

\* The request texts, by what execute_task_logic looks for in them: a
\* calendar trigger (line 349) and a Gmail trigger (lines 412-418).
Texts == [cal : BOOLEAN, mail : BOOLEAN]

\* A new task that starts out executing, for comparison.
NewTaskExecuting(id, text, plan, req) ==
    [id |-> id, original_request |-> text, plan |-> plan,
     status |-> "executing", requires_internet |-> req, sources |-> <<>>]

\* A new task with the status the endpoint answers when planning failed
\* (line 726), for comparison.
NewTaskError(id, text, plan, req) ==
    [id |-> id, original_request |-> text, plan |-> plan,
     status |-> "error", requires_internet |-> req, sources |-> <<>>]

\* new_task of agent(): the dict has no "sources" key, read as empty.
NewTask(id, text, plan, req) ==
    [id |-> id, original_request |-> text, plan |-> plan,
     status |-> "planned", requires_internet |-> req, sources |-> <<>>]

\* ------------------------------------------------------------------------
\* The task store: pure functions of the list held in tasks.json.

\* next((index for (index, d) in enumerate(tasks) if d["id"] == id), None);
\* 0 stands for None.
IndexOf(tasks, id) ==
    IF \E i \in 1..Len(tasks) : tasks[i].id = id
    THEN CHOOSE i \in 1..Len(tasks) :
            /\ tasks[i].id = id
            /\ \A j \in 1..(i - 1) : tasks[j].id # id
    ELSE 0

\* Variants of the store functions, for comparison: a save that keeps the
\* stored status, a save that never looks for the id, an update that writes
\* nothing.
save_task_merging(tasks, task) ==
    LET i == IndexOf(tasks, task.id)
    IN  IF i # 0 THEN [tasks EXCEPT ![i] = [task EXCEPT !.status = tasks[i].status]]
        ELSE Append(tasks, task)

save_task_appending(tasks, task) == Append(tasks, task)

update_task_status_noop(tasks, task_id, status, plan_update) == tasks

\* An update that does not look at the id of a record, for comparison.
update_task_status_every(tasks, task_id, status, plan_update) ==
    [i \in 1..Len(tasks) |-> [tasks[i] EXCEPT !.status = status]]

\* The list save_task writes: the record with the same id replaced in
\* place, or the record appended.
save_task(tasks, task) ==
    LET i == IndexOf(tasks, task.id)
    IN  IF i # 0 THEN [tasks EXCEPT ![i] = task] ELSE Append(tasks, task)

\* The list update_task_status writes: the first record with the id gets
\* the status, and the plan when plan_update is truthy.  (When no record
\* has the id nothing is written: the list stays.)
update_task_status(tasks, task_id, status, plan_update) ==
    LET i == IndexOf(tasks, task_id)
    IN  IF i = 0 THEN tasks
        ELSE [tasks EXCEPT ![i] =
                [@ EXCEPT !.status = status,
                          !.plan = IF plan_update # NoPlan THEN plan_update ELSE @]]

\* next((t for t in tasks if t["id"] == task_id), None) of get_task, and
\* the same search in execute_task_logic and complete_task.
get_task(tasks, task_id) ==
    LET i == IndexOf(tasks, task_id) IN IF i = 0 THEN NoRec ELSE tasks[i]

\* [t for t in tasks if t.get("status") == "waiting_for_internet"]
QueuedTasks(tasks) == SelectSeq(tasks, LAMBDA r : r.status = "waiting_for_internet")

VARIABLES
    file,           \* tasks.json: the list of task records
    pc,             \* each thread's position
    tid,            \* execution threads: task_id argument
    areq,           \* execution threads: requires_internet argument
    atext,          \* execution threads: task_text argument
    result_update,  \* execution threads: result_update
    snap,           \* each thread's record in hand (tasks[idx], task)
    cplan,          \* complete_task: req.plan_update
    csrc,           \* complete_task: req.sources
    alwaysOnline,   \* connectivity is back for good: every probe answers True
    retries,        \* per task: executions the monitor has started for it
    probedOnline    \* per task: a probe answered True since its submission

\* The store taken alone (StoreSpec).
VARIABLES
    lock,           \* file_lock: the caller holding it, or 0
    midwrite,       \* tasks.json is open for writing: truncated, not yet dumped
    spc,            \* each caller's position in its store operation
    sop,            \* each caller's operation and arguments
    sbuf,           \* each caller's `tasks` as read from the file
    sret,           \* what load_tasks returned to the caller
    lastPut,        \* per id: the record of the last completed save_task
    updated,        \* per id: update_task_status wrote since that save_task
    sfail           \* per caller: the read of its operation failed

\* Calls of the /agent endpoint taken alone (SubmitSpec).
VARIABLES
    rejected        \* agent() calls that returned the planner's error

\* The trigger match of the router taken alone (MatchSpec).
VARIABLES
    mtext,          \* _matches_triggers: text, a sequence of characters
    mtriggers,      \* _matches_triggers: triggers
    mresult         \* what _matches_triggers returned ("True", "False"), or "none"

\* One plan_and_execute call of the router taken alone (RouteSpec).
VARIABLES
    rstatus,        \* "none", "running", "returned" or "raised"
    rmatch,         \* the cards whose triggers match task_text
    rdismissed,     \* context["dismissed_intents"]
    rindex,         \* the card the loop is at
    results,        \* results
    rinvoked,       \* the cards whose execute_func was called, in order
    rfailed,        \* the cards whose execute_func raised
    routput         \* the text returned

\* One _resolve_conference_record call taken alone (ResolveSpec).
VARIABLES
    vraw,           \* raw, a sequence of characters
    vspace,         \* what meet_service.get_meeting_space answers
    vrecords,       \* what meet_service.list_conference_records answers
    vlisterr,       \* whether list_conference_records answers with an error
    vout            \* the outcome and the external calls made, or NoOut

\* One task driven through execute_task_logic call by call (ExecSpec).
VARIABLES
    xpc,            \* the position in execute_task_logic, or how the call ended
    xtext,          \* task_text, by the keywords it holds
    xreq,           \* the task's requires_internet
    xlog,           \* the probes and capability calls of this call, in order
    xru,            \* result_update
    xdecision,      \* decision, by the words it holds
    xstatus,        \* the task's status in the store
    xplan,          \* what the calls appended to the task's plan
    xcreated,       \* calendar events created for the task so far
    xresumes        \* executions the monitor has started for the task

\* The loop of monitor_internet_queue taken alone (MonitorSpec).
VARIABLES
    mpc,            \* "sleep", "starting" (in the for loop) or "exited"
    mtick,          \* the ticks made, counted round TickCycle
    monline,        \* what check_internet answered in this tick
    msnap,          \* tasks as load_tasks returned them in this tick
    mqueue,         \* queued_tasks
    mnext,          \* the place of the loop in queued_tasks
    mstarted,       \* the ids the tick started a thread for, in order
    mlast,          \* the last tick that ended: probe, snapshot, threads, raised
    mrunning,       \* ids with a started thread still running
    mraised,        \* a tick has ended in the handler of line 607
    mexecfailed     \* a started execution has failed

\* One _execute_meet call taken alone (MeetSpec).
VARIABLES
    hstatus,        \* "none", "called", "returned" or "raised"
    htext,          \* task_text, a sequence of characters
    hintent,        \* intent, or "none" while there is none
    hclassified     \* calls of the model made to classify the intent

\* The time inputs of a task (TimeSpec).
VARIABLES
    tpc,            \* "none", "executing", "queued" or "completed"
    tinput,         \* the request: text kind, client_time, extracted_time
    trecord,        \* the record of the task in the store
    texecs,         \* the arguments of every execute_task_logic call so far
    tdates          \* the arguments of every extract_event_details call so far

engineVars == <<pc, tid, areq, atext, result_update, snap, cplan, csrc,
                alwaysOnline, retries, probedOnline>>
storeVars == <<lock, midwrite, spc, sop, sbuf, sret, lastPut, updated, sfail>>
matchVars == <<mtext, mtriggers, mresult>>
routeVars == <<rstatus, rmatch, rdismissed, rindex, results, rinvoked, rfailed, routput>>
resolveVars == <<vraw, vspace, vrecords, vlisterr, vout>>
execVars == <<xpc, xtext, xreq, xlog, xru, xdecision, xstatus, xplan, xcreated, xresumes>>
monVars == <<mpc, mtick, monline, msnap, mqueue, mnext, mstarted, mlast, mrunning,
             mraised, mexecfailed>>
meetVars == <<hstatus, htext, hintent, hclassified>>
timeVars == <<tpc, tinput, trecord, texecs, tdates>>
auxVars == <<rejected, matchVars, routeVars, resolveVars, execVars, monVars, meetVars, timeVars>>
vars == <<file, engineVars, storeVars, auxVars>>

\* ------------------------------------------------------------------------
\* check_internet(): what a probe may answer now.
check_internet == IF alwaysOnline THEN {TRUE} ELSE BOOLEAN

\* The history a probe leaves: a True answer is noted for every task
\* submitted so far.
Probed(answer) ==
    [t \in Tasks |-> probedOnline[t] \/ (answer /\ pc[Bg(t)] # "idle")]

\* Positions inside execute_task_logic.
ExecPcs == {"exec_start", "running", "cq_loaded", "fin_loaded", "fin_saved", "caught"}

LifeInit ==
    /\ file = <<>>
    /\ pc = [th \in Threads |-> IF th \in ExThreads THEN "free" ELSE "idle"]
    /\ tid = [th \in ExecThreads |-> IF th \in BgThreads THEN th[2] ELSE 0]
    /\ areq = [th \in ExecThreads |-> FALSE]
    /\ atext = [th \in ExecThreads |-> NoText]
    /\ result_update = [th \in ExecThreads |-> <<>>]
    /\ snap = [th \in Threads |-> NoRec]
    /\ cplan = [t \in Tasks |-> NoPlan]
    /\ csrc = [t \in Tasks |-> <<>>]
    /\ alwaysOnline = FALSE
    /\ retries = [t \in Tasks |-> 0]
    /\ probedOnline = [t \in Tasks |-> FALSE]

\* Connectivity comes back and stays.
ConnectivityRestored ==
    /\ ~alwaysOnline
    /\ alwaysOnline' = TRUE
    /\ UNCHANGED <<file, pc, tid, areq, atext, result_update, snap, cplan,
                   csrc, retries, probedOnline,
                   storeVars, auxVars>>

\* agent(): the plan is made, requires_internet is decided, new_task is
\* built with a fresh uuid and saved, the background task is scheduled.
\* (When the plan text reports "Error connecting" the handler returns
\* without a task: nothing changes.)
agent(t) ==
    /\ pc[Bg(t)] = "idle"
    /\ \A u \in Tasks : u < t => pc[Bg(u)] # "idle"
    /\ \E text \in Texts, req \in BOOLEAN :
          /\ file' = save_task(file, NewTask(t, text, PlanText, req))
          /\ areq' = [areq EXCEPT ![Bg(t)] = req]
          /\ atext' = [atext EXCEPT ![Bg(t)] = text]
    /\ pc' = [pc EXCEPT ![Bg(t)] = "bg_sleep"]
    /\ UNCHANGED <<tid, result_update, snap, cplan, csrc, alwaysOnline, retries,
                   probedOnline,
                   storeVars, auxVars>>

\* agent() when the plan text holds "Error connecting" (lines 725-726):
\* {"plan": plan_text, "status": "error"} is returned, nothing is saved and
\* nothing is scheduled.
MaxRejected == 1

agentRejected ==
    /\ rejected < MaxRejected
    /\ rejected' = rejected + 1
    /\ UNCHANGED <<file, engineVars, storeVars, execVars, monVars, meetVars, timeVars, matchVars, routeVars, resolveVars>>

\* What a finished execution thread leaves: the submission thread is done,
\* a spawned thread's slot is free again.
Finish(th) ==
    /\ pc' = [pc EXCEPT ![th] = IF th \in BgThreads THEN "done" ELSE "free"]
    /\ tid' = [tid EXCEPT ![th] = IF th \in BgThreads THEN @ ELSE 0]
    /\ areq' = [areq EXCEPT ![th] = IF th \in BgThreads THEN @ ELSE FALSE]
    /\ atext' = [atext EXCEPT ![th] = NoText]
    /\ result_update' = [result_update EXCEPT ![th] = <<>>]
    /\ snap' = [snap EXCEPT ![th] = NoRec]

\* background_task_simulation after its sleep: offline, the task is queued
\* and the thread returns; else execute_task_logic is entered.
background_task_simulation(t) ==
    /\ pc[Bg(t)] = "bg_sleep"
    /\ \E answer \in (IF areq[Bg(t)] THEN check_internet ELSE {TRUE}) :
          /\ probedOnline' = IF areq[Bg(t)] THEN Probed(answer) ELSE probedOnline
          /\ IF answer
             THEN /\ pc' = [pc EXCEPT ![Bg(t)] = "exec_start"]
                  /\ UNCHANGED <<file, tid, areq, atext, result_update, snap>>
             ELSE /\ file' = update_task_status(file, t, "waiting_for_internet", NoPlan)
                  /\ Finish(Bg(t))
    /\ UNCHANGED <<cplan, csrc, alwaysOnline, retries,
                   storeVars, auxVars>>

\* ------------------------------------------------------------------------
\* execute_task_logic(task_id, task_text, client_time, requires_internet).

\* Lines 339-344: the check before the heavy lifting (the probe is made
\* only when requires_internet is set), then the re-queue and return, or
\* update_task_status(task_id, "executing").
ExecStart(th) ==
    /\ pc[th] = "exec_start"
    /\ \E answer \in (IF areq[th] THEN check_internet ELSE {TRUE}) :
          /\ probedOnline' = IF areq[th] THEN Probed(answer) ELSE probedOnline
          /\ IF answer
             THEN /\ file' = update_task_status(file, tid[th], "executing", NoPlan)
                  /\ pc' = [pc EXCEPT ![th] = "running"]
                  /\ UNCHANGED <<tid, areq, atext, result_update, snap>>
             ELSE /\ file' = update_task_status(file, tid[th], "waiting_for_internet", NoPlan)
                  /\ Finish(th)
    /\ UNCHANGED <<cplan, csrc, alwaysOnline, retries,
                   storeVars, auxVars>>

\* One way through lines 346-403, the calendar block: where it leads
\* ("mail": on to the Gmail block, "cq": the re-queue of lines 366-371,
\* "requeue": update_task_status(task_id, "waiting_for_internet") and
\* return, "raise": an exception out of the calendar call, caught at line
\* 566), the result_update so far, and whether a probe answered True (on)
\* or False (off) on the way.
Path(next, ru, on, off) == [next |-> next, ru |-> ru, on |-> on, off |-> off]

CalendarPaths(text) ==
    IF ~text.cal
    THEN {Path("mail", <<>>, FALSE, FALSE)}
    ELSE {Path("mail", <<"NoDetails">>, FALSE, FALSE),   \* details is None
          Path("cq", <<>>, FALSE, TRUE),                 \* line 363: offline
          Path("mail", <<"EventCreated">>, TRUE, FALSE), \* "link" in cal_result
          Path("mail", <<"EventFailed">>, TRUE, FALSE),  \* another error
          Path("requeue", <<>>, TRUE, FALSE),            \* a network-looking error
          Path("raise", <<>>, TRUE, FALSE)}

\* Lines 408-552, the Gmail block, entered with what the calendar block
\* left: offline at line 419 the task is re-queued; else the Gmail action
\* appends a text or nothing and the final update follows ("fin"), or an
\* exception comes out of it (call_ollama(...).strip() at line 439 when the
\* model's answer holds no text), caught at line 566.
GmailPaths(text, c) ==
    IF ~text.mail
    THEN {Path("fin", c.ru, c.on, c.off)}
    ELSE {Path("requeue", c.ru, c.on, TRUE),
          Path("raise", <<>>, TRUE, c.off)} \cup
         {Path("fin", c.ru \o m, TRUE, c.off) : m \in {<<>>, <<"Mail">>}}

ExecPaths(text) ==
    {c \in CalendarPaths(text) : c.next # "mail"} \cup
    UNION {GmailPaths(text, c) : c \in {d \in CalendarPaths(text) : d.next = "mail"}}

\* Lines 369-371: the record read at line 366 is marked and put back.
CqRecord(r) == [r EXCEPT !.requires_internet = TRUE, !.status = "waiting_for_internet"]

\* Lines 346-558: from "executing" to the next operation on the store.
ExecBody(th) ==
    /\ pc[th] = "running"
    /\ \E p \in ExecPaths(atext[th]) :
          /\ alwaysOnline => ~p.off
          /\ probedOnline' =
                [t \in Tasks |-> probedOnline[t] \/ (p.on /\ pc[Bg(t)] # "idle")]
          /\ CASE p.next = "cq" ->
                    \* tasks = load_tasks(); idx = ...
                    /\ snap' = [snap EXCEPT ![th] = get_task(file, tid[th])]
                    /\ pc' = [pc EXCEPT ![th] = "cq_loaded"]
                    /\ UNCHANGED <<file, tid, areq, atext, result_update>>
               [] p.next = "requeue" ->
                    /\ file' = update_task_status(file, tid[th], "waiting_for_internet", NoPlan)
                    /\ Finish(th)
               [] p.next = "raise" ->
                    \* except Exception as e:
                    /\ pc' = [pc EXCEPT ![th] = "caught"]
                    /\ UNCHANGED <<file, tid, areq, atext, result_update, snap>>
               [] p.next = "fin" ->
                    \* tasks = load_tasks(); existing_index = ...
                    /\ snap' = [snap EXCEPT ![th] = get_task(file, tid[th])]
                    /\ result_update' = [result_update EXCEPT ![th] = p.ru]
                    /\ pc' = [pc EXCEPT ![th] = "fin_loaded"]
                    /\ UNCHANGED <<file, tid, areq, atext>>
    /\ UNCHANGED <<cplan, csrc, alwaysOnline, retries,
                   storeVars, auxVars>>

\* Lines 368-374: save_task(tasks[idx]), or update_task_status when the
\* record was not found; return False.
CqSave(th) ==
    /\ pc[th] = "cq_loaded"
    /\ file' = IF snap[th].id # 0
               THEN save_task(file, CqRecord(snap[th]))
               ELSE update_task_status(file, tid[th], "waiting_for_internet", NoPlan)
    /\ Finish(th)
    /\ UNCHANGED <<cplan, csrc, alwaysOnline, retries, probedOnline,
                   storeVars, auxVars>>

\* Lines 559-561: the record read at line 557 gets the result appended and
\* is put back (when it was found).
FinRecord(r, text) == [r EXCEPT !.plan = @ \o text]

FinSave(th) ==
    /\ pc[th] = "fin_loaded"
    /\ file' = IF snap[th].id # 0
               THEN save_task(file, FinRecord(snap[th], result_update[th]))
               ELSE file
    /\ pc' = [pc EXCEPT ![th] = "fin_saved"]
    /\ result_update' = [result_update EXCEPT ![th] = <<>>]
    /\ snap' = [snap EXCEPT ![th] = NoRec]
    /\ UNCHANGED <<tid, areq, atext, cplan, csrc, alwaysOnline, retries, probedOnline,
                   storeVars, auxVars>>

\* Line 563: update_task_status(task_id, "completed"); return True.
Done(th) ==
    /\ pc[th] = "fin_saved"
    /\ file' = update_task_status(file, tid[th], "completed", NoPlan)
    /\ Finish(th)
    /\ UNCHANGED <<cplan, csrc, alwaysOnline, retries, probedOnline,
                   storeVars, auxVars>>

\* What the handler of lines 566-569, given the status "completed" to set,
\* would write.
HandlerCompletes(tasks, task_id) == update_task_status(tasks, task_id, "completed", NoPlan)

\* What the handler of lines 566-569 writes: it logs and returns False.
HandlerWrites(tasks, task_id) == tasks

Caught(th) ==
    /\ pc[th] = "caught"
    /\ file' = HandlerWrites(file, tid[th])
    /\ Finish(th)
    /\ UNCHANGED <<cplan, csrc, alwaysOnline, retries, probedOnline,
                   storeVars, auxVars>>

execute_task_logic(th) ==
    \/ ExecStart(th)
    \/ ExecBody(th)
    \/ CqSave(th)
    \/ FinSave(th)
    \/ Done(th)
    \/ Caught(th)

\* ------------------------------------------------------------------------
\* complete_task(task_id, req): the external completion call.

\* Line 769: update_task_status(task_id, "completed", plan_update).
CompleteUpdate(t) ==
    /\ pc[Cm(t)] = "idle"
    /\ \E p \in {NoPlan, <<"O">>}, s \in {<<>>, <<"s">>} :
          /\ (p = NoPlan) = (s = <<>>)
          /\ cplan' = [cplan EXCEPT ![t] = p]
          /\ csrc' = [csrc EXCEPT ![t] = s]
          /\ file' = update_task_status(file, t, "completed", p)
    /\ pc' = [pc EXCEPT ![Cm(t)] = "c_updated"]
    /\ UNCHANGED <<tid, areq, atext, result_update, snap, alwaysOnline, retries,
                   probedOnline,
                   storeVars, auxVars>>

\* Lines 772-774: tasks = load_tasks() and the search for the task.
CompleteLoad(t) ==
    /\ pc[Cm(t)] = "c_updated"
    /\ IF get_task(file, t).id # 0
       THEN /\ snap' = [snap EXCEPT ![Cm(t)] = get_task(file, t)]
            /\ pc' = [pc EXCEPT ![Cm(t)] = "c_loaded"]
            /\ UNCHANGED <<cplan, csrc>>
       ELSE /\ pc' = [pc EXCEPT ![Cm(t)] = "done"]
            /\ cplan' = [cplan EXCEPT ![t] = NoPlan]
            /\ csrc' = [csrc EXCEPT ![t] = <<>>]
            /\ UNCHANGED snap
    /\ UNCHANGED <<file, tid, areq, atext, result_update, alwaysOnline, retries,
                   probedOnline,
                   storeVars, auxVars>>

\* Lines 775-777: the record read before gets the sources, when given, and
\* is put back.
CRecord(r, sources) == [r EXCEPT !.sources = IF sources # <<>> THEN sources ELSE @]

CompleteSave(t) ==
    /\ pc[Cm(t)] = "c_loaded"
    /\ file' = save_task(file, CRecord(snap[Cm(t)], csrc[t]))
    /\ pc' = [pc EXCEPT ![Cm(t)] = "done"]
    /\ snap' = [snap EXCEPT ![Cm(t)] = NoRec]
    /\ cplan' = [cplan EXCEPT ![t] = NoPlan]
    /\ csrc' = [csrc EXCEPT ![t] = <<>>]
    /\ UNCHANGED <<tid, areq, atext, result_update, alwaysOnline, retries, probedOnline,
                   storeVars, auxVars>>

complete_task(t) == CompleteUpdate(t) \/ CompleteLoad(t) \/ CompleteSave(t)

\* ------------------------------------------------------------------------
\* monitor_internet_queue(): one tick of the recovery monitor.

FreeSlots == {k \in Slots : pc[Ex(k)] = "free"}

\* The i-th lowest free slot.
RECURSIVE NthFree(_, _)
NthFree(S, i) ==
    LET m == CHOOSE k \in S : \A j \in S : k <= j
    IN  IF i = 1 THEN m ELSE NthFree(S \ {m}, i - 1)

\* A tick that starts a thread for every task, for comparison.
ToResumeAll(tasks) == tasks

\* The queued tasks the tick starts a thread for: all of them (lines
\* 593-606).
ToResume(tasks) == QueuedTasks(tasks)

\* Lines 589-606: after the sleep the probe; online, the store is read and
\* one thread per queued task is started, not waited for, with
\* (id, original_request, None, requires_internet).  The model starts
\* threads while slots are free and no task is past MaxRetries.
monitor_internet_queue ==
    \E answer \in check_internet :
        /\ probedOnline' = Probed(answer)
        /\ IF answer
           THEN LET q == ToResume(file)
                    slot(i) == Ex(NthFree(FreeSlots, i))
                    started == {slot(i) : i \in 1..Len(q)}
                    task(th) == q[CHOOSE i \in 1..Len(q) : slot(i) = th]
                IN  /\ Len(q) <= Cardinality(FreeSlots)
                    /\ \A i \in 1..Len(q) : retries[q[i].id] < MaxRetries
                    /\ pc' = [th \in Threads |->
                                IF th \in started THEN "exec_start" ELSE pc[th]]
                    /\ tid' = [th \in ExecThreads |->
                                IF th \in started THEN task(th).id ELSE tid[th]]
                    /\ atext' = [th \in ExecThreads |->
                                IF th \in started THEN task(th).original_request
                                ELSE atext[th]]
                    /\ areq' = [th \in ExecThreads |->
                                IF th \in started THEN task(th).requires_internet
                                ELSE areq[th]]
                    /\ retries' = [t \in Tasks |->
                                IF \E i \in 1..Len(q) : q[i].id = t
                                THEN retries[t] + 1 ELSE retries[t]]
           ELSE UNCHANGED <<pc, tid, atext, areq, retries>>
        /\ UNCHANGED <<file, result_update, snap, cplan, csrc, alwaysOnline,
                   storeVars, auxVars>>

\* ------------------------------------------------------------------------
\* The task store step by step: load_tasks, save_task and
\* update_task_status as their callers run them, each inside
\* `with file_lock:`.

MaxCallers == 2
MaxIds == 2
Callers == 1..MaxCallers
StoreIds == 1..MaxIds

\* The records callers put: two per id, differing in every mutable field.
PutRecord(id, v) ==
    [id |-> id, original_request |-> NoText,
     plan |-> IF v = 1 THEN <<"P">> ELSE <<"Q">>,
     status |-> IF v = 1 THEN "planned" ELSE "executing",
     requires_internet |-> (v = 1),
     sources |-> IF v = 1 THEN <<>> ELSE <<"s">>]

StoreOps ==
    {[kind |-> "load"]} \cup
    {[kind |-> "save", task |-> PutRecord(id, v)] : id \in StoreIds, v \in 1..2} \cup
    {[kind |-> "update", id |-> id, status |-> "completed", plan_update |-> p] :
        id \in StoreIds, p \in {NoPlan, <<"O">>}}
NoOp == [kind |-> "none"]

StoreInit ==
    /\ lock = 0
    /\ midwrite = FALSE
    /\ spc = [c \in Callers |-> "idle"]
    /\ sop = [c \in Callers |-> NoOp]
    /\ sbuf = [c \in Callers |-> <<>>]
    /\ sret = [c \in Callers |-> <<>>]
    /\ lastPut = [id \in StoreIds |-> NoRec]
    /\ updated = [id \in StoreIds |-> FALSE]
    /\ sfail = [c \in Callers |-> FALSE]

\* A caller calls one of the three functions.
StoreCall(c) ==
    /\ spc[c] = "idle"
    /\ \E op \in StoreOps : sop' = [sop EXCEPT ![c] = op]
    /\ spc' = [spc EXCEPT ![c] = "acquire"]
    /\ UNCHANGED <<file, engineVars, auxVars, lock, midwrite, sbuf, sret, lastPut, updated, sfail>>

\* A lock that lets every caller in, for comparison.
LockFreeAlways == TRUE

\* `with file_lock:` lets a caller in when no caller holds the lock.
LockFree == lock = 0

StoreAcquire(c) ==
    /\ spc[c] = "acquire"
    /\ LockFree
    /\ lock' = c
    /\ spc' = [spc EXCEPT ![c] = "read"]
    /\ UNCHANGED <<file, engineVars, auxVars, midwrite, sop, sbuf, sret, lastPut, updated, sfail>>

\* What json.load gives: a file open for writing does not parse, which
\* load_tasks and save_task take for an empty list.
ReadTasks == IF midwrite THEN <<>> ELSE file

\* The read under the lock (lines 76-82, 87-94, 113-120) and what follows
\* it without touching the file: load_tasks returns the list;
\* update_task_status returns when the file does not parse or no record
\* has the id; save_task and update_task_status go on to write.
StoreRead(c) ==
    /\ spc[c] = "read"
    /\ sbuf' = [sbuf EXCEPT ![c] = ReadTasks]
    /\ sret' = [sret EXCEPT ![c] = IF sop[c].kind = "load" THEN ReadTasks ELSE @]
    /\ spc' = [spc EXCEPT ![c] =
                CASE sop[c].kind = "load" -> "release"
                  [] sop[c].kind = "save" -> "open"
                  [] sop[c].kind = "update" ->
                        IF midwrite \/ IndexOf(ReadTasks, sop[c].id) = 0
                        THEN "release" ELSE "open"]
    /\ UNCHANGED <<file, engineVars, auxVars, lock, midwrite, sop, lastPut, updated, sfail>>

\* What the handlers of a failed read put in place of the file's list:
\* `return []` (line 82), `tasks = []` (line 94).
FailedReadStale == file

FailedRead == <<>>

\* The read under the lock fails: TASKS_FILE is missing (lines 76, 87, 113)
\* or open() or json.load() raises, whatever the reason (lines 81, 93,
\* 119).  load_tasks returns []; save_task goes on with an empty list;
\* update_task_status returns.
StoreReadFailed(c) ==
    /\ spc[c] = "read"
    /\ sfail' = [sfail EXCEPT ![c] = TRUE]
    /\ sbuf' = [sbuf EXCEPT ![c] = FailedRead]
    /\ sret' = [sret EXCEPT ![c] = IF sop[c].kind = "load" THEN FailedRead ELSE @]
    /\ spc' = [spc EXCEPT ![c] = IF sop[c].kind = "save" THEN "open" ELSE "release"]
    /\ UNCHANGED <<file, engineVars, auxVars, lock, midwrite, sop, lastPut, updated>>

\* open(TASKS_FILE, "w") truncates the file (lines 103, 129).
StoreOpen(c) ==
    /\ spc[c] = "open"
    /\ file' = <<>>
    /\ midwrite' = TRUE
    /\ spc' = [spc EXCEPT ![c] = "dump"]
    /\ UNCHANGED <<engineVars, auxVars, lock, sop, sbuf, sret, lastPut, updated, sfail>>

\* json.dump(tasks, f) writes the caller's list (lines 104, 130).
StoreDump(c) ==
    /\ spc[c] = "dump"
    /\ file' = IF sop[c].kind = "save"
               THEN save_task(sbuf[c], sop[c].task)
               ELSE update_task_status(sbuf[c], sop[c].id, sop[c].status,
                                       sop[c].plan_update)
    /\ midwrite' = FALSE
    /\ lastPut' = IF sop[c].kind = "save"
                  THEN [lastPut EXCEPT ![sop[c].task.id] = sop[c].task]
                  ELSE lastPut
    /\ updated' = IF sop[c].kind = "save"
                  THEN [updated EXCEPT ![sop[c].task.id] = FALSE]
                  ELSE [updated EXCEPT ![sop[c].id] = TRUE]
    /\ spc' = [spc EXCEPT ![c] = "release"]
    /\ UNCHANGED <<engineVars, auxVars, lock, sop, sbuf, sret, sfail>>

\* A `with` block that keeps the lock when the read failed, for comparison.
AfterWithHeld(c) == IF sfail[c] THEN c ELSE 0

\* The holder of the lock once the `with file_lock:` block is left, by
\* whichever way (its end, a return inside it): nobody.
AfterWith(c) == 0

\* The end of the `with` block: the lock is released and the call returns.
StoreRelease(c) ==
    /\ spc[c] = "release"
    /\ lock' = AfterWith(c)
    /\ spc' = [spc EXCEPT ![c] = "idle"]
    /\ sop' = [sop EXCEPT ![c] = NoOp]
    /\ sbuf' = [sbuf EXCEPT ![c] = <<>>]
    /\ sret' = [sret EXCEPT ![c] = <<>>]
    /\ sfail' = [sfail EXCEPT ![c] = FALSE]
    /\ UNCHANGED <<file, engineVars, auxVars, midwrite, lastPut, updated>>

\* Positions inside a `with file_lock:` block.
InsideLock == {"read", "open", "dump", "release"}

\* ------------------------------------------------------------------------
LifeNext ==
    \/ ConnectivityRestored
    \/ \E t \in Tasks : agent(t)
    \/ \E t \in Tasks : background_task_simulation(t)
    \/ \E th \in ExecThreads : execute_task_logic(th)
    \/ \E t \in Tasks : complete_task(t)
    \/ monitor_internet_queue

StoreNext ==
    \E c \in Callers :
        \/ StoreCall(c)
        \/ StoreAcquire(c)
        \/ StoreRead(c)
        \/ StoreOpen(c)
        \/ StoreDump(c)
        \/ StoreRelease(c)

\* The store with reads that may fail.
FaultyStoreNext ==
    \/ StoreNext
    \/ \E c \in Callers : StoreReadFailed(c)

AuxInit ==
    /\ rejected = 0
    /\ mtext = <<>>
    /\ mtriggers = <<>>
    /\ mresult = "none"
    /\ rstatus = "none"
    /\ rmatch = {}
    /\ rdismissed = {}
    /\ rindex = 0
    /\ results = <<>>
    /\ rinvoked = <<>>
    /\ rfailed = {}
    /\ routput = <<>>
    /\ vraw = <<>>
    /\ vspace = "none"
    /\ vrecords = <<>>
    /\ vlisterr = FALSE
    /\ vout = [outcome |-> <<"#none">>, calls |-> <<>>]
    /\ xpc = "none"
    /\ xtext = [cal |-> FALSE, email |-> FALSE, search |-> FALSE,
                summary |-> FALSE, read |-> FALSE]
    /\ xreq = FALSE
    /\ xlog = <<>>
    /\ xru = <<>>
    /\ xdecision = [specific |-> FALSE, general |-> FALSE]
    /\ xstatus = "none"
    /\ xplan = <<>>
    /\ xcreated = 0
    /\ xresumes = 0
    /\ mpc = "sleep"
    /\ mtick = 0
    /\ monline = FALSE
    /\ msnap = <<>>
    /\ mqueue = <<>>
    /\ mnext = 0
    /\ mstarted = <<>>
    /\ mlast = [online |-> FALSE, snap |-> <<>>, started |-> <<>>, raised |-> FALSE]
    /\ mrunning = {}
    /\ mraised = FALSE
    /\ mexecfailed = FALSE
    /\ hstatus = "none"
    /\ htext = <<>>
    /\ hintent = "none"
    /\ hclassified = 0
    /\ tpc = "none"
    /\ tinput = [calendar |-> FALSE, client_time |-> "None", extracted_time |-> "None"]
    /\ trecord = [status |-> "none", requires_internet |-> TRUE,
                  extracted_time |-> "None"]
    /\ texecs = <<>>
    /\ tdates = <<>>

Init == LifeInit /\ StoreInit /\ AuxInit
Next == LifeNext

Spec == Init /\ [][Next]_vars

\* The submission path: /agent calls, those the planner fails included, and
\* the background executions they schedule.
SubmitNext ==
    \/ agentRejected
    \/ ConnectivityRestored
    \/ \E t \in Tasks : agent(t)
    \/ \E t \in Tasks : background_task_simulation(t)
    \/ \E t \in Tasks : execute_task_logic(Bg(t))

SubmitSpec == Init /\ [][SubmitNext]_vars

\* The engine with every complete call made and run while nothing else
\* works on its task: the background task has returned, no execution of
\* the task is in progress, and no thread moves during the call.
Quiet(t) ==
    /\ pc[Bg(t)] = "done"
    /\ \A th \in ExecThreads : pc[th] \in ExecPcs => tid[th] # t

NoCompleteRunning == \A t \in Tasks : pc[Cm(t)] \in {"idle", "done"}

CompleteAloneNext ==
    \/ \E t \in Tasks : Quiet(t) /\ complete_task(t)
    \/ /\ NoCompleteRunning
       /\ \/ ConnectivityRestored
          \/ \E t \in Tasks : agent(t)
          \/ \E t \in Tasks : background_task_simulation(t)
          \/ \E th \in ExecThreads : execute_task_logic(th)
          \/ monitor_internet_queue

CompleteAloneSpec == Init /\ [][CompleteAloneNext]_vars

\* Every started thread runs on, and the monitor loop never ends; requests
\* (agent, complete_task) and the return of connectivity are the
\* environment's.
Fairness ==
    /\ \A t \in Tasks : WF_vars(background_task_simulation(t))
    /\ \A th \in ExecThreads : WF_vars(execute_task_logic(th))
    /\ \A t \in Tasks : WF_vars(CompleteLoad(t) \/ CompleteSave(t))
    /\ WF_vars(monitor_internet_queue)

FairSpec == Spec /\ Fairness

StoreSpec == Init /\ [][StoreNext]_vars

FaultyStoreSpec == Init /\ [][FaultyStoreNext]_vars

TypeOK ==
    /\ \A th \in Threads : pc[th] \in ExecPcs \cup
            {"idle", "bg_sleep", "done", "free", "c_updated", "c_loaded"}
    /\ \A c \in Callers : spc[c] \in InsideLock \cup {"idle", "acquire"}

\* ------------------------------------------------------------------------
\* Properties of the engine (Spec, FairSpec).

RecordOf(t) == get_task(file, t)
Stored(t) == RecordOf(t).id # 0
HasStatus(t, st) == Stored(t) /\ RecordOf(t).status = st

\* The executions of task t in progress.
Running(t) == {th \in ExecThreads : pc[th] \in ExecPcs /\ tid[th] = t}

IsPrefix(p, q) == Len(p) <= Len(q) /\ SubSeq(q, 1, Len(p)) = p

AllowedTransitions ==
    {<<"planned", "executing">>, <<"planned", "waiting_for_internet">>,
     <<"executing", "waiting_for_internet">>,
     <<"waiting_for_internet", "executing">>, <<"executing", "completed">>}

\* C1: as long as no external complete call is made for a task, every
\* change of its status is one of planned->executing,
\* planned->waiting_for_internet, executing->waiting_for_internet,
\* waiting_for_internet->executing, executing->completed; a completed task
\* never goes back.
OnlyAllowedTransitions ==
    [][\A t \in Tasks :
          LET before == get_task(file, t)
              after == get_task(file', t)
          IN  (/\ before.id # 0
               /\ after.id # 0
               /\ pc[Cm(t)] = "idle" /\ pc'[Cm(t)] = "idle"
               /\ after.status # before.status)
              => <<before.status, after.status>> \in AllowedTransitions]_vars

\* C2: a task submitted with requires_internet = true, for which every
\* probe since its submission answered False and no complete call was
\* made, is never executing or completed, and is waiting_for_internet once
\* its background task has returned.
OfflineTaskStaysQueued ==
    \A t \in Tasks :
        (/\ pc[Bg(t)] # "idle"
         /\ areq[Bg(t)]
         /\ ~probedOnline[t]
         /\ pc[Cm(t)] = "idle")
        => /\ Stored(t)
           /\ RecordOf(t).status \in {"planned", "waiting_for_internet"}
           /\ pc[Bg(t)] = "done" => RecordOf(t).status = "waiting_for_internet"

\* The task of C2 settled: queued by its background task, never started
\* by the monitor.
OfflineTaskQueued ==
    \E t \in Tasks :
        /\ pc[Bg(t)] = "done"
        /\ areq[Bg(t)]
        /\ ~probedOnline[t]
        /\ pc[Cm(t)] = "idle"
        /\ HasStatus(t, "waiting_for_internet")
        /\ retries[t] = 0

\* C3: once every probe answers True, with the monitor and the execution
\* threads running on, a task that is waiting_for_internet is eventually
\* completed (unless an external complete call comes in, or the monitor
\* has started it MaxRetries times).
QueuedEventuallyCompleted ==
    \A t \in Tasks :
        (/\ alwaysOnline
         /\ HasStatus(t, "waiting_for_internet")
         /\ pc[Cm(t)] = "idle"
         /\ retries[t] < MaxRetries)
        ~> (\/ HasStatus(t, "completed")
            \/ pc[Cm(t)] # "idle"
            \/ retries[t] = MaxRetries)

\* C4: at most one execute_task_logic of a task is in progress.
AtMostOneExecution == \A t \in Tasks : Cardinality(Running(t)) <= 1

\* The task a thread works on.
TaskOf(th) == IF th \in CmThreads THEN th[2] ELSE tid[th]

\* C5: a thread that writes back the record it read (the plan append of
\* execute, the calendar re-queue, the sources update of complete) writes
\* over the record as it read it: no write of another thread lies between
\* its read and its write.
NoLostUpdate ==
    [][\A th \in Threads :
          (/\ pc[th] \in {"cq_loaded", "fin_loaded", "c_loaded"}
           /\ pc'[th] # pc[th]
           /\ snap[th].id # 0)
          => get_task(file, TaskOf(th)) = snap[th]]_vars

\* C6: as long as no external complete call is made for a task, every step
\* leaves its plan a prefix of the plan after the step.
PlanOnlyAppended ==
    [][\A t \in Tasks :
          (/\ get_task(file, t).id # 0
           /\ get_task(file', t).id # 0
           /\ pc[Cm(t)] = "idle" /\ pc'[Cm(t)] = "idle")
          => IsPrefix(get_task(file, t).plan, get_task(file', t).plan)]_vars

\* C7: no task record has requires_internet = false and
\* status = waiting_for_internet.
NoOfflineTaskQueued ==
    \A i \in 1..Len(file) :
        ~(~file[i].requires_internet /\ file[i].status = "waiting_for_internet")

\* ------------------------------------------------------------------------
\* Properties of the store (StoreSpec).

Count(tasks, id) == Cardinality({i \in 1..Len(tasks) : tasks[i].id = id})

\* C8: a get after a completed put of an id, with no later put or status
\* update of the id, gives exactly the record put, in the file and in what
\* load_tasks returns; with concurrent puts the stored record is the whole
\* record of the last put.
PutThenGet ==
    \A id \in StoreIds :
        (lastPut[id].id # 0 /\ ~updated[id])
        => /\ ~midwrite => get_task(file, id) = lastPut[id]
           /\ \A c \in Callers :
                (spc[c] = "release" /\ sop[c].kind = "load")
                => get_task(sret[c], id) = lastPut[id]

\* A load returns the second record put for id 1 while the other caller is
\* about to put the first one again.
GetAfterConcurrentPuts ==
    \E c, d \in Callers :
        /\ spc[c] = "release" /\ sop[c].kind = "load"
        /\ lastPut[1] = PutRecord(1, 2) /\ ~updated[1]
        /\ get_task(sret[c], 1) = PutRecord(1, 2)
        /\ spc[d] = "acquire" /\ sop[d] = [kind |-> "save", task |-> PutRecord(1, 1)]

\* C9: the store holds at most one record per id; a put of a stored id
\* replaces the record where it is and a put of a new id adds one record.
OneRecordPerId ==
    /\ \A id \in StoreIds :
          /\ Count(file, id) <= 1
          /\ ~midwrite => Count(file, id) = IF lastPut[id].id # 0 THEN 1 ELSE 0
    /\ \A c \in Callers :
          (spc[c] = "release" /\ sop[c].kind = "save")
          => LET id == sop[c].task.id
                 old == IndexOf(sbuf[c], id)
             IN  /\ Len(file) = Len(sbuf[c]) + (IF old = 0 THEN 1 ELSE 0)
                 /\ IndexOf(file, id) = IF old = 0 THEN Len(file) ELSE old
                 /\ \A i \in 1..Len(sbuf[c]) : i # old => file[i] = sbuf[c][i]

\* A put has just replaced the first of two stored records.
PutReplacedInPlace ==
    \E c \in Callers :
        /\ spc[c] = "release" /\ sop[c].kind = "save"
        /\ Len(file) = 2 /\ Len(sbuf[c]) = 2
        /\ IndexOf(sbuf[c], sop[c].task.id) = 1
        /\ file[1] = sop[c].task /\ sbuf[c][1] # sop[c].task

\* C10: at most one caller is reading or writing the store, the one that
\* holds file_lock, and no caller reads while the file is being written.
OneAtATime ==
    /\ Cardinality({c \in Callers : spc[c] \in InsideLock}) <= 1
    /\ \A c \in Callers : spc[c] \in InsideLock => lock = c
    /\ \A c \in Callers : spc[c] = "read" => ~midwrite
    /\ midwrite => \E c \in Callers : spc[c] = "dump"

\* A reader waits for the lock while a writer has the file open.
ReaderWaitsForWriter ==
    \E c, d \in Callers :
        /\ spc[c] = "dump" /\ midwrite /\ lock = c
        /\ spc[d] = "acquire" /\ sop[d].kind = "load"

\* What an update may change: nothing but the status, and the plan when a
\* plan is given, of the record with the id; no record comes or goes.
OnlyStatusAndPlan(before, after, op) ==
    /\ Len(after) = Len(before)
    /\ \A i \in 1..Len(before) :
          IF i = IndexOf(before, op.id)
          THEN /\ after[i] = [before[i] EXCEPT !.status = after[i].status,
                                               !.plan = after[i].plan]
               /\ after[i].status = op.status
               /\ after[i].plan = IF op.plan_update # NoPlan THEN op.plan_update
                                  ELSE before[i].plan
          ELSE after[i] = before[i]

\* C38: update_task_status writes the list it read with only the status,
\* and the plan when one is given, of the matching record changed; when no
\* record has the id or the file cannot be read it leaves the file as it
\* is.
UpdateChangesOnlyStatus ==
    [][\A c \in Callers :
          (sop[c].kind = "update" /\ spc'[c] # spc[c]) =>
              CASE spc[c] = "open" -> sbuf[c] = file
                [] spc[c] = "dump" -> OnlyStatusAndPlan(sbuf[c], file', sop[c])
                [] OTHER -> file' = file]_vars

\* An update with a plan has been written to a store of two records.
UpdatedOneOfTwo ==
    \E c \in Callers :
        /\ sop[c].kind = "update" /\ spc[c] = "release"
        /\ sop[c].plan_update # NoPlan
        /\ Len(file) = 2
        /\ file[IndexOf(file, sop[c].id)].status = "completed"
        /\ \E i \in 1..2 : file[i].status # "completed"

\* ------------------------------------------------------------------------
\* The callers of the store between their store calls (LockSpec): the
\* probe, a capability call, a call of the model, a sleep (lines 573 and
\* 589).

OutsideActivities == {"check_internet", "capability", "call_ollama", "sleep"}

\* A caller that probes, calls out or sleeps wherever it is, for
\* comparison.
MayGoOutsideAnywhere(c) == spc[c] \notin OutsideActivities

\* Where the callers probe, call out and sleep: between two store calls
\* (none of load_tasks, save_task and update_task_status does any of it).
MayGoOutside(c) == spc[c] = "idle"

StoreOutside(c) ==
    /\ MayGoOutside(c)
    /\ \E a \in OutsideActivities : spc' = [spc EXCEPT ![c] = a]
    /\ UNCHANGED <<file, engineVars, auxVars, lock, midwrite, sop, sbuf, sret, lastPut,
                   updated, sfail>>

StoreOutsideEnds(c) ==
    /\ spc[c] \in OutsideActivities
    /\ spc' = [spc EXCEPT ![c] = "idle"]
    /\ UNCHANGED <<file, engineVars, auxVars, lock, midwrite, sop, sbuf, sret, lastPut,
                   updated, sfail>>

LockNext ==
    \/ FaultyStoreNext
    \/ \E c \in Callers : StoreOutside(c)
    \/ \E c \in Callers : StoreOutsideEnds(c)

\* A caller inside a store call goes on, and a caller waiting for the lock
\* that finds it free again and again gets it.
LockFairness ==
    \A c \in Callers :
        /\ WF_vars(StoreRead(c) \/ StoreOpen(c) \/ StoreDump(c) \/ StoreRelease(c))
        /\ SF_vars(StoreAcquire(c))

LockSpec == Init /\ [][LockNext]_vars /\ LockFairness

\* C35: no caller holds the lock while it probes, calls a capability or the
\* model, or sleeps: the lock is held inside a store call only.
NoLockAcrossBlocking ==
    \A c \in Callers :
        /\ spc[c] \in OutsideActivities => lock # c
        /\ lock = c => spc[c] \in InsideLock

\* A caller sleeps while another, inside save_task, holds the lock.
SleepsWhileOtherWrites ==
    \E c, d \in Callers :
        /\ spc[c] = "sleep"
        /\ spc[d] = "dump" /\ lock = d

\* C36: a caller that asks for the lock does not hold it, a caller that
\* has the lock gives it back whichever way its call goes, and a caller
\* waiting for the lock gets it.
NoStoreDeadlock ==
    \A c \in Callers :
        /\ [](spc[c] = "acquire" => lock # c)
        /\ (lock = c) ~> (lock # c)
        /\ (spc[c] = "acquire") ~> (lock = c)

\* A caller waits for the lock while the holder's read has failed.
WaitsWhileReadFailed ==
    \E c, d \in Callers :
        /\ spc[c] = "acquire"
        /\ lock = d /\ sfail[d]

\* ------------------------------------------------------------------------
\* Properties of the store with failing reads (FaultyStoreSpec).

\* C11: a record persisted by a completed put stays in the store: outside
\* a write in progress, every id ever put has a record in the file.
PersistedStays ==
    ~midwrite => \A id \in StoreIds : lastPut[id].id # 0 => Count(file, id) >= 1

\* C12: a load_tasks whose read failed returns the empty list to its
\* caller, normally; the search of get_task in it finds nothing and the
\* monitor finds nothing queued.
FailedLoadReturnsEmpty ==
    \A c \in Callers :
        (sfail[c] /\ sop[c].kind = "load")
        => /\ spc[c] = "release"
           /\ sret[c] = <<>>
           /\ QueuedTasks(sret[c]) = <<>>
           /\ \A id \in StoreIds : get_task(sret[c], id) = NoRec

\* A load_tasks has failed to read a file that holds two records.
FailedLoadOfFullStore ==
    \E c \in Callers :
        /\ sfail[c] /\ sop[c].kind = "load" /\ spc[c] = "release"
        /\ Len(file) = 2 /\ ~midwrite

\* ------------------------------------------------------------------------
\* Properties of the submission path (SubmitSpec).

\* The /agent calls that have returned a task.
Accepted == {t \in Tasks : pc[Bg(t)] # "idle"}

\* An /agent call returns in this step.
AgentReturns == rejected' # rejected \/ \E t \in Tasks : pc[Bg(t)] = "idle" /\ pc'[Bg(t)] # "idle"

\* C13 as stated: every /agent call adds one record to the store.
EverySubmitPersists ==
    [][AgentReturns => Len(file') = Len(file) + 1]_vars

\* C13: an /agent call whose plan text does not hold "Error connecting"
\* persists one new record, with an id not stored before and status
\* planned, schedules the one background task of that id, starts no other
\* thread and makes no probe; a call whose plan text holds "Error
\* connecting" persists nothing and schedules nothing.
SubmitPersistsUnlessPlannerFails ==
    [][/\ \A t \in Tasks :
            (pc[Bg(t)] = "idle" /\ pc'[Bg(t)] # "idle")
            => /\ get_task(file, t) = NoRec
               /\ Len(file') = Len(file) + 1
               /\ get_task(file', t).id = t
               /\ get_task(file', t).status = "planned"
               /\ \A i \in 1..Len(file) : file'[i] = file[i]
               /\ pc'[Bg(t)] = "bg_sleep"
               /\ tid'[Bg(t)] = t
               /\ \A th \in Threads \ {Bg(t)} : pc'[th] = pc[th]
               /\ probedOnline' = probedOnline
       /\ rejected' # rejected
            => /\ file' = file
               /\ pc' = pc
               /\ probedOnline' = probedOnline]_vars

\* One call has been refused and one has returned a task, still planned.
SubmittedAfterRejected ==
    /\ rejected = 1
    /\ pc[Bg(1)] = "bg_sleep"
    /\ Len(file) = 1
    /\ file[1].status = "planned"

\* ------------------------------------------------------------------------
\* Properties of the complete call run alone (CompleteAloneSpec).

\* C14: when complete_task returns, the task is completed, its plan is the
\* plan override given and its sources are the sources given, whatever
\* they are (empty ones included).
CompleteSetsAll ==
    [][\A t \in Tasks :
          (pc[Cm(t)] = "c_loaded" /\ pc'[Cm(t)] = "done")
          => /\ get_task(file', t).status = "completed"
             /\ get_task(file', t).plan = cplan[t]
             /\ get_task(file', t).sources = csrc[t]]_vars

\* ------------------------------------------------------------------------
\* Properties of the exception handler of execute_task_logic (Spec).

\* C15: an exception raised in execute_task_logic after "executing" was
\* set is caught there: neither the raise nor the handler writes to the
\* store (no status change, no "completed", no plan text), and the
\* function returns.
ExceptionChangesNothing ==
    [][\A th \in ExecThreads :
          /\ (pc[th] # "caught" /\ pc'[th] = "caught")
                => pc[th] = "running" /\ file' = file
          /\ (pc[th] = "caught" /\ pc'[th] # "caught")
                => /\ file' = file
                   /\ pc'[th] = IF th \in BgThreads THEN "done" ELSE "free"]_vars

\* An execution has ended in the handler: the task is left executing with
\* no thread working on it.
LeftExecuting ==
    \E t \in Tasks :
        /\ HasStatus(t, "executing")
        /\ RecordOf(t).plan = PlanText
        /\ Running(t) = {}
        /\ pc[Bg(t)] = "done"
        /\ pc[Cm(t)] = "idle"
        /\ retries[t] = 0

\* ------------------------------------------------------------------------
\* AgentOrchestrator._matches_triggers(text, triggers) (MatchSpec).

MaxTextLen == 4
MaxTriggerLen == 2

\* The characters of the texts and triggers tried: two letters, one of
\* them in both cases, and the space.
Alphabet == {"a", "A", "b", " "}
Letters == {"a", "A", "b"}

\* re.IGNORECASE: characters are compared by their lower case.
LowerChar(ch) ==
    CASE ch = "A" -> "a"
      [] ch = "M" -> "m"
      [] OTHER -> ch

\* \w of the regular expression: letters, digits and the underscore.
IsWordChar(ch) == ch \notin {" ", "-", "/", "."}

\* \b at offset k of text (between text[k] and text[k+1]): a word
\* character on exactly one side; the ends of the text count as non-word.
WordBoundary(text, k) ==
    LET before == k >= 1 /\ IsWordChar(text[k])
        after == k < Len(text) /\ IsWordChar(text[k + 1])
    IN  before # after

\* re.escape(trigger) matched at offset k, ignoring case.
LiteralAt(text, trigger, k) ==
    /\ k + Len(trigger) <= Len(text)
    /\ \A j \in 1..Len(trigger) : LowerChar(text[k + j]) = LowerChar(trigger[j])

\* A search that looks for the trigger anywhere, for comparison.
SearchPatternSubstring(text, trigger) == \E k \in 0..Len(text) : LiteralAt(text, trigger, k)

\* re.search(r'\b' + re.escape(trigger) + r'\b', text, re.IGNORECASE)
SearchPattern(text, trigger) ==
    \E k \in 0..Len(text) :
        /\ WordBoundary(text, k)
        /\ LiteralAt(text, trigger, k)
        /\ WordBoundary(text, k + Len(trigger))

\* The loop of lines 69-73: True at the first trigger found.
_matches_triggers(text, triggers) ==
    \E i \in 1..Len(triggers) : SearchPattern(text, triggers[i])

Strings(S, n) == UNION {[1..k -> S] : k \in 0..n}

MeetingTomorrow == <<"M", "e", "e", "t", "i", "n", "g", " ", "t", "o", "m", "o", "r", "r", "o", "w">>
Meet == <<"m", "e", "e", "t">>
Meeting == <<"m", "e", "e", "t", "i", "n", "g">>

MatchTexts == Strings(Alphabet, MaxTextLen) \cup {MeetingTomorrow}
MatchTriggers == (Strings(Letters, MaxTriggerLen) \ {<<>>}) \cup {Meet, Meeting}
MatchTriggerLists ==
    {<<t>> : t \in MatchTriggers} \cup {<<t, u>> : t \in MatchTriggers, u \in {<<"a">>, <<"b", "b">>, Meet}}

\* A call is made with a text and the triggers of a card.
MatchCall ==
    /\ mresult = "none"
    /\ mtext = <<>> /\ mtriggers = <<>>
    /\ \E text \in MatchTexts, triggers \in MatchTriggerLists :
          /\ mtext' = text
          /\ mtriggers' = triggers
    /\ UNCHANGED <<file, engineVars, storeVars, execVars, monVars, meetVars, timeVars, rejected, routeVars, resolveVars, mresult>>

\* The call returns.
MatchReturn ==
    /\ mresult = "none"
    /\ mtriggers # <<>>
    /\ mresult' = IF _matches_triggers(mtext, mtriggers) THEN "True" ELSE "False"
    /\ UNCHANGED <<file, engineVars, storeVars, execVars, monVars, meetVars, timeVars, rejected, routeVars, resolveVars, mtext, mtriggers>>

MatchNext == MatchCall \/ MatchReturn

MatchSpec == Init /\ [][MatchNext]_vars

\* The words of a text: its maximal runs of word characters, in lower case.
WordsOf(text) ==
    {[j \in 1..(b - a) |-> LowerChar(text[a + j])] :
        <<a, b>> \in {w \in (0..Len(text)) \X (0..Len(text)) :
                        /\ w[1] < w[2]
                        /\ \A j \in (w[1] + 1)..w[2] : IsWordChar(text[j])
                        /\ (w[1] = 0 \/ ~IsWordChar(text[w[1]]))
                        /\ (w[2] = Len(text) \/ ~IsWordChar(text[w[2] + 1]))}}

LowerText(t) == [j \in 1..Len(t) |-> LowerChar(t[j])]

\* C16: the match of a card's triggers is true iff one of the triggers is
\* a whole word of the text, case ignored (the triggers tried are single
\* words); "meeting tomorrow" does not match "meet" and does match
\* "meeting".
MatchesWholeWords ==
    /\ mresult # "none"
          => (mresult = "True") =
             (\E i \in 1..Len(mtriggers) : LowerText(mtriggers[i]) \in WordsOf(mtext))
    /\ (mresult # "none" /\ mtext = MeetingTomorrow /\ mtriggers = <<Meet>>)
          => mresult = "False"
    /\ (mresult # "none" /\ mtext = MeetingTomorrow /\ mtriggers = <<Meeting>>)
          => mresult = "True"

\* "meeting tomorrow" was tried against the one trigger "meet" and did not
\* match.
MeetNotInMeeting ==
    mtext = MeetingTomorrow /\ mtriggers = <<Meet>> /\ mresult = "False"

\* ------------------------------------------------------------------------
\* The calendar trigger test of execute_task_logic, lines 348-349
\* (CalTriggerSpec).

\* triggers
CalendarTriggers ==
    << <<"c", "a", "l", "e", "n", "d", "a", "r">>,
       <<"c", "a", "l", "e", "n", "d", "e", "r">>,
       <<"m", "e", "e", "t", "i", "n", "g">>,
       <<"a", "p", "p", "o", "i", "n", "t", "m", "e", "n", "t">>,
       <<"e", "v", "e", "n", "t">>,
       <<"r", "e", "m", "i", "n", "d">>,
       <<"m", "a", "r", "k">> >>

\* valid_trigger in text
InText(trigger, text) ==
    \E k \in 0..(Len(text) - Len(trigger)) :
        SubSeq(text, k + 1, k + Len(trigger)) = trigger

\* any(valid_trigger in task_text.lower() for valid_trigger in triggers)
CalendarTriggered(task_text) ==
    \E i \in 1..Len(CalendarTriggers) : InText(CalendarTriggers[i], LowerText(task_text))

\* The words the texts tried are made of.
CalWords ==
    {<<"m", "a", "r", "k">>, <<"M", "a", "r", "k">>,
     <<"m", "a", "r", "k", "e", "t">>,
     <<"e", "v", "e", "n", "t">>,
     <<"p", "r", "e", "v", "e", "n", "t">>,
     <<"r", "e", "m", "i", "n", "d">>,
     <<"r", "e", "m", "i", "n", "d", "e", "r">>,
     <<"m", "e", "e", "t", "i", "n", "g">>,
     <<"b", "u", "y">>,
     <<"m", "i", "l", "k">>,
     <<"t", "h", "e">>}

CalTexts == CalWords \cup {v \o <<" ">> \o w : v \in CalWords, w \in CalWords}

\* execute_task_logic comes to line 348 with a text.
CalTriggerCall ==
    /\ mresult = "none"
    /\ mtext = <<>> /\ mtriggers = <<>>
    /\ mtext' \in CalTexts
    /\ mtriggers' = CalendarTriggers
    /\ UNCHANGED <<file, engineVars, storeVars, execVars, monVars, meetVars, timeVars, rejected, routeVars, resolveVars, mresult>>

\* The test of line 349: "True" when the calendar action is entered.
CalTriggerTest ==
    /\ mresult = "none"
    /\ mtriggers # <<>>
    /\ mresult' = IF CalendarTriggered(mtext) THEN "True" ELSE "False"
    /\ UNCHANGED <<file, engineVars, storeVars, execVars, monVars, meetVars, timeVars, rejected, routeVars, resolveVars, mtext, mtriggers>>

CalTriggerNext == CalTriggerCall \/ CalTriggerTest

CalTriggerSpec == Init /\ [][CalTriggerNext]_vars

\* C32: the calendar action is entered only when a calendar trigger is a
\* whole word of the text, case ignored: "market" and "prevent" do not
\* enter it.
CalendarOnlyOnWholeWord ==
    mresult = "True"
    => \E i \in 1..Len(mtriggers) : mtriggers[i] \in WordsOf(mtext)

\* ------------------------------------------------------------------------
\* AgentOrchestrator.plan_and_execute(task_id, task_text, context)
\* (RouteSpec).

\* self.agents, in the order of _register_default_agents.
Calendar == 1
Gmail == 2
MeetCard == 3
Classroom == 4
Cards == {Calendar, Gmail, MeetCard, Classroom}

\* agent.intent_id
IntentId(card) ==
    CASE card = Calendar -> "calendar"
      [] card = Gmail -> "email"
      [] card = MeetCard -> "meet"
      [] card = Classroom -> "classroom"

\* The text a card's execute_func returns when it returns one.
CardText(card) ==
    CASE card = Calendar -> "Cal"
      [] card = Gmail -> "Mail"
      [] card = MeetCard -> "Meet"
      [] card = Classroom -> "Class"

\* How a call of agent.execute_func may end: _execute_calendar returns a
\* text, or None when offline (line 103); _execute_gmail, _execute_meet and
\* _execute_classroom begin with `from main import call_llm, ...` (lines
\* 123, 194, 375), a name main.py does not define: the import raises.
CardOutcomes(card) == IF card = Calendar THEN {"text", "none"} ELSE {"raise"}

\* A call: the text (by the cards whose triggers it matches) and the
\* context's dismissed_intents.
RouteCall ==
    /\ rstatus = "none"
    /\ \E m \in SUBSET Cards, d \in SUBSET {IntentId(c) : c \in Cards} :
          /\ rmatch' = m
          /\ rdismissed' = d
    /\ rstatus' = "running"
    /\ rindex' = 1
    /\ UNCHANGED <<file, engineVars, storeVars, execVars, monVars, meetVars, timeVars, rejected, matchVars, resolveVars,
                   results, rinvoked, rfailed, routput>>

\* One turn of the loop of lines 82-91, for the card at rindex: skipped
\* when dismissed or not matching, else its execute_func is called; a
\* truthy result is appended; an exception leaves plan_and_execute.
RouteCard ==
    /\ rstatus = "running"
    /\ rindex \in Cards
    /\ IF IntentId(rindex) \in rdismissed \/ rindex \notin rmatch
       THEN /\ rindex' = rindex + 1
            /\ UNCHANGED <<rstatus, results, rinvoked, rfailed>>
       ELSE \E o \in CardOutcomes(rindex) :
              /\ rinvoked' = Append(rinvoked, rindex)
              /\ CASE o = "text" ->
                        /\ results' = Append(results, CardText(rindex))
                        /\ rindex' = rindex + 1
                        /\ UNCHANGED <<rstatus, rfailed>>
                   [] o = "none" ->
                        /\ rindex' = rindex + 1
                        /\ UNCHANGED <<rstatus, results, rfailed>>
                   [] o = "raise" ->
                        /\ rstatus' = "raised"
                        /\ rfailed' = rfailed \cup {rindex}
                        /\ UNCHANGED <<rindex, results>>
    /\ UNCHANGED <<file, engineVars, storeVars, execVars, monVars, meetVars, timeVars, rejected, matchVars, resolveVars,
                   rmatch, rdismissed, routput>>

\* Lines 93-96: the canned text when there is no result, else
\* "".join(results).
RouteReturn ==
    /\ rstatus = "running"
    /\ rindex \notin Cards
    /\ routput' = IF results = <<>> THEN <<"NoTool">> ELSE results
    /\ rstatus' = "returned"
    /\ UNCHANGED <<file, engineVars, storeVars, execVars, monVars, meetVars, timeVars, rejected, matchVars, resolveVars,
                   rmatch, rdismissed, rindex, results, rinvoked, rfailed>>

\* The caller is done with the call.
RouteReset ==
    /\ rstatus \in {"returned", "raised"}
    /\ rstatus' = "none"
    /\ rmatch' = {}
    /\ rdismissed' = {}
    /\ rindex' = 0
    /\ results' = <<>>
    /\ rinvoked' = <<>>
    /\ rfailed' = {}
    /\ routput' = <<>>
    /\ UNCHANGED <<file, engineVars, storeVars, execVars, monVars, meetVars, timeVars, rejected, matchVars, resolveVars>>

RouteNext == RouteCall \/ RouteCard \/ RouteReturn \/ RouteReset

RouteSpec == Init /\ [][RouteNext]_vars

\* The cards of S in registration order.
RECURSIVE InOrder(_)
InOrder(S) ==
    IF S = {} THEN <<>>
    ELSE LET c == CHOOSE x \in S : \A y \in S : x <= y
         IN  <<c>> \o InOrder(S \ {c})

\* The cards a call is to invoke: matching and not dismissed.
ToInvoke == {c \in rmatch : IntentId(c) \notin rdismissed}

RouteEnded == rstatus \in {"returned", "raised"}

\* C17: a plan_and_execute call invokes exactly the matching cards that
\* are not dismissed, each once, in registration order, and returns; a
\* returned text made of results holds them in that order.
RouteInvokesMatching ==
    RouteEnded
    => /\ rinvoked = InOrder(ToInvoke)
       /\ rstatus = "returned"
       /\ results # <<>> => routput = results

\* C18: a card that raises does not end the call: the matching cards after
\* it are invoked and the call returns the text of the results.
RouteSurvivesFailure ==
    (RouteEnded /\ rfailed # {})
    => /\ rstatus = "returned"
       /\ \A c \in ToInvoke : \E i \in 1..Len(rinvoked) : rinvoked[i] = c
       /\ routput = IF results = <<>> THEN <<"NoTool">> ELSE results

\* C29: a returned call gives the canned "no specialized tool" text
\* exactly when no card that is not dismissed matches the text; matching
\* cards that all returned nothing give no canned text and no text of
\* their own.
CannedOnlyWhenNoMatch ==
    rstatus = "returned"
    => /\ (routput = <<"NoTool">>) <=> (ToInvoke = {})
       /\ (ToInvoke # {} /\ results = <<>>) => routput = <<>>

\* ------------------------------------------------------------------------
\* AgentOrchestrator._resolve_conference_record(raw) (ResolveSpec).
\* Strings are sequences of characters; names the resolver only passes on
\* are sequences of one marker.

MaxRecords == 2

ConfPrefix ==
    <<"c", "o", "n", "f", "e", "r", "e", "n", "c", "e",
      "R", "e", "c", "o", "r", "d", "s", "/">>
SpacesPrefix == <<"s", "p", "a", "c", "e", "s", "/">>

\* No call returned yet.
NoOut == [outcome |-> <<"#none">>, calls |-> <<>>]
\* None
NoneName == <<"#None">>
\* The "name" of the space the lookup found.
FoundSpace == <<"#space">>
\* records[i]["name"]
RecordName(i) == <<"#record">> \o [j \in 1..i |-> "'"]

StartsWith(str, prefix) ==
    Len(prefix) <= Len(str) /\ SubSeq(str, 1, Len(prefix)) = prefix

Drop(str, n) == SubSeq(str, n + 1, Len(str))

\* str.lstrip("/")
RECURSIVE LStripSlash(_)
LStripSlash(str) ==
    IF str # <<>> /\ Head(str) = "/" THEN LStripSlash(Tail(str)) ELSE str

\* str.strip()
RECURSIVE Strip(_)
Strip(str) ==
    IF str = <<>> THEN str
    ELSE IF Head(str) = " " THEN Strip(Tail(str))
    ELSE IF str[Len(str)] = " " THEN Strip(SubSeq(str, 1, Len(str) - 1))
    ELSE str

LowerLetters ==
    {"a", "b", "c", "d", "e", "f", "g", "h", "i", "j", "k", "l", "m",
     "n", "o", "p", "q", "r", "s", "t", "u", "v", "w", "x", "y", "z"}

\* re.match(r'^[a-z]{3}-[a-z]{4}-[a-z]{3}$', record_id)
IsCodeShape(id) ==
    /\ Len(id) = 12
    /\ \A j \in 1..12 :
          IF j \in {4, 9} THEN id[j] = "-" ELSE id[j] \in LowerLetters

\* A listing that returns the last record, and a lookup that lists after a
\* failed lookup, for comparison.
ListingLast(space_name, calls, records) ==
    [outcome |-> IF records = <<>> THEN NoneName ELSE records[Len(records)],
     calls |-> Append(calls, <<"list_conference_records">> \o space_name)]

LookupListingAnyway(raw, space, records) ==
    IF StartsWith(raw, SpacesPrefix)
    THEN ListingLast(raw, <<>>, <<>>)
    ELSE [outcome |-> IF records = <<>> THEN NoneName ELSE records[1],
          calls |-> << <<"get_meeting_space">> \o SpacesPrefix \o raw,
                       <<"list_conference_records">> \o SpacesPrefix \o raw >>]

\* Lines 365-372: the records of the space are listed; None when there is
\* none, else the name of the first.
Listing(space_name, calls, records) ==
    LET made == Append(calls, <<"list_conference_records">> \o space_name)
    IN  [outcome |-> IF records = <<>> THEN NoneName ELSE records[1],
         calls |-> made]

\* Lines 353-363: a spaces/... string is the space name; anything else is
\* taken for a meeting code and looked up.
Lookup(raw, space, records) ==
    IF StartsWith(raw, SpacesPrefix)
    THEN Listing(raw, <<>>, records)
    ELSE LET space_name == SpacesPrefix \o raw
             made == << <<"get_meeting_space">> \o space_name >>
         IN  IF space = "error"
             THEN [outcome |-> NoneName, calls |-> made]
             ELSE Listing(IF space = "named" THEN FoundSpace ELSE NoneName,
                          made, records)

\* Resolvers that look up the whole conferenceRecords/... string, or the id
\* of every conferenceRecords/... string, for comparison.
ResolveKeepingPrefix(input, space, records) ==
    LET raw == Strip(LStripSlash(input))
    IN  IF StartsWith(raw, ConfPrefix) /\ ~IsCodeShape(Drop(raw, Len(ConfPrefix)))
        THEN [outcome |-> raw, calls |-> <<>>]
        ELSE Lookup(raw, space, records)

ResolveLookingUpAll(input, space, records) ==
    LET raw == Strip(LStripSlash(input))
    IN  IF StartsWith(raw, ConfPrefix)
        THEN Lookup(Drop(raw, Len(ConfPrefix)), space, records)
        ELSE Lookup(raw, space, records)

\* _resolve_conference_record(raw), with the answers of the Meet service:
\* the outcome and the calls made.
Resolve(input, space, records) ==
    LET raw == Strip(LStripSlash(input))
        record_id == Drop(raw, Len(ConfPrefix))
    IN  IF StartsWith(raw, ConfPrefix)
        THEN IF IsCodeShape(record_id)
             THEN Lookup(record_id, space, records)
             ELSE [outcome |-> raw, calls |-> <<>>]
        ELSE Lookup(raw, space, records)

Code == <<"a", "b", "c", "-", "d", "e", "f", "g", "-", "h", "i", "j">>
Opaque == <<"a", "Z", "9", "x", "7", "Q", "h", "2">>

\* The ids tried: a meeting code, an opaque id, near misses of the code
\* shape, the empty id, and ids followed by a blank.
ResolveIds ==
    {Code, Opaque, <<>>,
     SubSeq(Code, 1, 11),
     Code \o <<"k">>,
     [Code EXCEPT ![1] = "A"],
     [Code EXCEPT ![3] = "1"],
     [Code EXCEPT ![4] = "_"],
     <<"a", "b", "-", "c", "d", "e", "f", "g", "-", "h", "i", "j">>,
     Code \o <<" ">>,
     Opaque \o <<" ">>}

ResolveInputs ==
    {p \o id : p \in {<<>>, ConfPrefix, SpacesPrefix, <<"/">> \o ConfPrefix},
               id \in ResolveIds}

\* records_result.get("conferenceRecords", []): the records of the answer,
\* none when the answer is an error.
ListedRecords == IF vlisterr THEN <<>> ELSE vrecords

\* A call, and the state of the Meet service it will meet.
ResolveCall ==
    /\ vspace = "none"
    /\ \E input \in ResolveInputs, space \in {"error", "named", "null"},
          n \in 0..MaxRecords :
          /\ vraw' = input
          /\ vspace' = space
          /\ vrecords' = [i \in 1..n |-> RecordName(i)]
    /\ vlisterr' \in BOOLEAN
    /\ UNCHANGED <<file, engineVars, storeVars, execVars, monVars, meetVars, timeVars, rejected, matchVars, routeVars, vout>>

\* The call returns.
ResolveReturn ==
    /\ vspace # "none"
    /\ vout = NoOut
    /\ vout' = Resolve(vraw, vspace, ListedRecords)
    /\ UNCHANGED <<file, engineVars, storeVars, execVars, monVars, meetVars, timeVars, rejected, matchVars, routeVars,
                   vraw, vspace, vrecords, vlisterr>>

ResolveNext == ResolveCall \/ ResolveReturn

ResolveSpec == Init /\ [][ResolveNext]_vars

\* C19: for a code-shaped c, conferenceRecords/c resolves as c does: the
\* same outcome and the same calls, the lookup of spaces/c and then, when
\* the space is found, the listing of its records.
CodeRecordResolvesAsCode ==
    (/\ vout # NoOut
     /\ StartsWith(vraw, ConfPrefix)
     /\ IsCodeShape(Drop(vraw, Len(ConfPrefix))))
    => LET c == Drop(vraw, Len(ConfPrefix))
       IN  /\ vout = Resolve(c, vspace, ListedRecords)
           /\ Len(vout.calls) = IF vspace = "error" THEN 1 ELSE 2
           /\ vout.calls[1] = <<"get_meeting_space">> \o SpacesPrefix \o c
           /\ Len(vout.calls) = 2 => Head(vout.calls[2]) = "list_conference_records"

\* conferenceRecords/abc-defg-hij has resolved to the first record of the
\* space found for the code.
CodeRecordLookedUp ==
    /\ vraw = ConfPrefix \o Code
    /\ vspace = "named"
    /\ vout.outcome = RecordName(1)
    /\ Len(vrecords) = 2
    /\ Len(vout.calls) = 2

\* C20 as stated: conferenceRecords/<id> with an id not of the code shape
\* resolves to the input itself, with no call.
OpaqueRecordUnchanged ==
    (/\ vout # NoOut
     /\ StartsWith(vraw, ConfPrefix)
     /\ ~IsCodeShape(Drop(vraw, Len(ConfPrefix))))
    => vout = [outcome |-> vraw, calls |-> <<>>]

\* C20: conferenceRecords/<id> whose id, blanks at its end removed, is not
\* of the code shape resolves to the input with those blanks removed, with
\* no call.
OpaqueRecordStripped ==
    (/\ vout # NoOut
     /\ StartsWith(vraw, ConfPrefix)
     /\ ~IsCodeShape(Drop(Strip(vraw), Len(ConfPrefix))))
    => vout = [outcome |-> Strip(vraw), calls |-> <<>>]

\* conferenceRecords/aZ9x7Qh2 followed by a blank has resolved to
\* conferenceRecords/aZ9x7Qh2.
OpaqueRecordResolved ==
    /\ vraw = ConfPrefix \o Opaque \o <<" ">>
    /\ vout = [outcome |-> ConfPrefix \o Opaque, calls |-> <<>>]

\* The input, slashes at its start and blanks around it removed.
Cleaned == Strip(LStripSlash(vraw))

\* The input leads to a space: it names one, or it is a code (bare, or
\* behind conferenceRecords/) whose space the lookup found.
ResolvesToSpace ==
    \/ StartsWith(Cleaned, SpacesPrefix)
    \/ /\ vspace # "error"
       /\ \/ ~StartsWith(Cleaned, ConfPrefix)
          \/ IsCodeShape(Drop(Cleaned, Len(ConfPrefix)))

\* C21: for an input that resolves to a space, an empty or failed listing
\* gives the not-found outcome, and a listing R1, R2, ... gives the name of
\* R1, the first in the order of the answer.
FirstListedRecord ==
    (vout # NoOut /\ ResolvesToSpace)
    => /\ (vlisterr \/ vrecords = <<>>) => vout.outcome = NoneName
       /\ (~vlisterr /\ vrecords # <<>>) => vout.outcome = vrecords[1]

\* spaces/abc-defg-hij with two records listed has resolved to the first.
FirstOfTwoReturned ==
    /\ vraw = SpacesPrefix \o Code
    /\ ~vlisterr
    /\ vrecords = <<RecordName(1), RecordName(2)>>
    /\ vout.outcome = RecordName(1)

\* The input is a bare code: neither spaces/... nor conferenceRecords/...
BareCode ==
    /\ ~StartsWith(Cleaned, SpacesPrefix)
    /\ ~StartsWith(Cleaned, ConfPrefix)

\* C30: for a bare code the space spaces/<code> is looked up, and when the
\* lookup answers with an error the outcome is not-found and no records
\* are listed.
FailedLookupNotFound ==
    (vout # NoOut /\ BareCode)
    => /\ vout.calls # <<>>
       /\ vout.calls[1] = <<"get_meeting_space">> \o SpacesPrefix \o Cleaned
       /\ vspace = "error" =>
             /\ vout.outcome = NoneName
             /\ Len(vout.calls) = 1

\* abc-defg-hij, whose lookup failed while records exist, was not found.
CodeLookupFailed ==
    /\ vraw = Code
    /\ vspace = "error"
    /\ ~vlisterr
    /\ vrecords # <<>>
    /\ vout = [outcome |-> NoneName,
               calls |-> << <<"get_meeting_space">> \o SpacesPrefix \o Code >>]

\* C31: for an input that starts with spaces/ the input itself is the
\* space name: that space is fetched before any listing, and when the fetch
\* fails the outcome is not-found and no records are listed.
SpaceInputFetched ==
    (vout # NoOut /\ StartsWith(Cleaned, SpacesPrefix))
    => /\ vout.calls # <<>>
       /\ vout.calls[1] = <<"get_meeting_space">> \o Cleaned
       /\ vspace = "error" =>
             /\ vout.outcome = NoneName
             /\ Len(vout.calls) = 1

\* ------------------------------------------------------------------------
\* execute_task_logic call by call (ExecSpec): one task, each probe and each
\* capability call a step of its own, and the monitor starting the task
\* again after a re-queue.

MaxResumes == 1

\* task_text by what lines 349 and 412-414 and 496 look for in it: a
\* calendar trigger, has_email_kw, is_search_req, is_summary_req,
\* read_intent.
ExecTexts == [cal : BOOLEAN, email : BOOLEAN, search : BOOLEAN,
              summary : BOOLEAN, read : BOOLEAN]

\* decision, the model's free text upper-cased, by the words looked for in
\* it.
Decisions == [specific : BOOLEAN, general : BOOLEAN]

Event(ev, res) == [ev |-> ev, res |-> res]

\* The calls that go over the network.
NetworkCalls ==
    {"create_event", "search_emails", "get_email_content",
     "fetch_recent_unread_emails"}

MailCalls == NetworkCalls \ {"create_event"}

\* The texts that report a failed capability call.
FailureTexts == {"EventFailed", "NoEmailsFound", "NoContent", "AccessRequired"}

execOthers == <<file, engineVars, storeVars, rejected, matchVars, routeVars,
                resolveVars, monVars, meetVars, timeVars>>

\* The task is there, planned, and execute_task_logic is called for it.
ExecCall ==
    /\ xpc = "none"
    /\ \E text \in ExecTexts, req \in BOOLEAN :
          /\ xtext' = text
          /\ xreq' = req
    /\ xstatus' = "planned"
    /\ xpc' = "start"
    /\ UNCHANGED <<execOthers, xlog, xru, xdecision, xplan, xcreated, xresumes>>

\* Lines 339-344.
ExecProbe ==
    /\ xpc = "start"
    /\ \E answer \in (IF xreq THEN BOOLEAN ELSE {TRUE}) :
          /\ xlog' = IF xreq THEN <<Event("check_internet", IF answer THEN "True" ELSE "False")>>
                     ELSE <<>>
          /\ IF answer
             THEN /\ xstatus' = "executing"
                  /\ xpc' = "calendar"
             ELSE /\ xstatus' = "waiting_for_internet"
                  /\ xpc' = "requeued"
    /\ xru' = <<>>
    /\ UNCHANGED <<execOthers, xtext, xreq, xdecision, xplan, xcreated, xresumes>>

\* Lines 349-357 and 402-403: the calendar trigger and the details.
ExecCalendar ==
    /\ xpc = "calendar"
    /\ IF ~xtext.cal
       THEN /\ xpc' = "gmail"
            /\ UNCHANGED xru
       ELSE \E details \in BOOLEAN :
              IF details
              THEN /\ xpc' = "cal_probe"
                   /\ UNCHANGED xru
              ELSE /\ xpc' = "gmail"
                   /\ xru' = <<"NoDetails">>
    /\ UNCHANGED <<execOthers, xtext, xreq, xlog, xdecision, xstatus, xplan,
                   xcreated, xresumes>>

\* Lines 363-375: the check before the calendar call; offline, the record
\* is marked as requiring internet and queued.
ExecCalendarProbe ==
    /\ xpc = "cal_probe"
    /\ \E answer \in BOOLEAN :
          /\ xlog' = Append(xlog, Event("check_internet", IF answer THEN "True" ELSE "False"))
          /\ IF answer
             THEN /\ xpc' = "cal_call"
                  /\ UNCHANGED <<xreq, xstatus>>
             ELSE /\ xpc' = "requeued"
                  /\ xreq' = TRUE
                  /\ xstatus' = "waiting_for_internet"
    /\ UNCHANGED <<execOthers, xtext, xru, xdecision, xplan, xcreated, xresumes>>

\* Lines 376-401: calendar_service.create_event and what is made of its
\* result: a link, an error that reads like a network error, another
\* error; or an exception (auth_service.get_credentials() is called
\* outside the try of create_event).
ExecCreateEvent ==
    /\ xpc = "cal_call"
    /\ \E res \in {"link", "network_error", "error", "raise"} :
          /\ xlog' = Append(xlog, Event("create_event", res))
          /\ xcreated' = IF res = "link" THEN xcreated + 1 ELSE xcreated
          /\ CASE res = "link" ->
                    /\ xru' = <<"EventCreated">>
                    /\ xpc' = "gmail"
                    /\ UNCHANGED xstatus
               [] res = "error" ->
                    /\ xru' = <<"EventFailed">>
                    /\ xpc' = "gmail"
                    /\ UNCHANGED xstatus
               [] res = "network_error" ->
                    /\ xstatus' = "waiting_for_internet"
                    /\ xpc' = "requeued"
                    /\ UNCHANGED xru
               [] res = "raise" ->
                    /\ xpc' = "failed"
                    /\ UNCHANGED <<xru, xstatus>>
    /\ UNCHANGED <<execOthers, xtext, xreq, xdecision, xplan, xresumes>>

\* Lines 412-422: the Gmail triggers and the check before the Gmail block.
ExecGmailProbe ==
    /\ xpc = "gmail"
    /\ IF ~(xtext.email \/ xtext.search)
       THEN /\ xpc' = "fin"
            /\ UNCHANGED <<xlog, xstatus>>
       ELSE \E answer \in BOOLEAN :
              /\ xlog' = Append(xlog, Event("check_internet", IF answer THEN "True" ELSE "False"))
              /\ IF answer
                 THEN /\ xpc' = "decide"
                      /\ UNCHANGED xstatus
                 ELSE /\ xpc' = "requeued"
                      /\ xstatus' = "waiting_for_internet"
    /\ UNCHANGED <<execOthers, xtext, xreq, xru, xdecision, xplan, xcreated, xresumes>>

\* Lines 424-480: the decision of the model, should_run_specific, the
\* search query and the guard against a generic query.  call_ollama gives
\* back what the model's answer holds under "response": .strip() raises
\* when that is null.
ExecDecide ==
    /\ xpc = "decide"
    /\ \/ /\ xpc' = "failed"
          /\ UNCHANGED xdecision
       \/ \E d \in Decisions :
             IF d.specific \/ (xtext.search /\ ~xtext.summary)
             THEN \/ /\ xpc' = "failed"
                     /\ UNCHANGED xdecision
                  \/ /\ xpc' = "general"
                     /\ xdecision' = [specific |-> FALSE, general |-> TRUE]
                  \/ /\ xpc' = "search"
                     /\ xdecision' = d
             ELSE /\ xpc' = "general"
                  /\ xdecision' = d
    /\ UNCHANGED <<execOthers, xtext, xreq, xlog, xru, xstatus, xplan, xcreated, xresumes>>

\* Lines 499-531, on the emails in hand: with emails, the first is read
\* (one email, or read_intent) or the list is shown; with none, "No emails
\* found" when the decision holds SPECIFIC.
AfterSearch(emails) ==
    IF emails \in {"one", "many"}
    THEN IF emails = "one" \/ xtext.read
         THEN [pc |-> "content", ru |-> <<>>]
         ELSE [pc |-> "general", ru |-> <<"SearchResults">>]
    ELSE IF xdecision.specific
         THEN [pc |-> "general", ru |-> <<"NoEmailsFound">>]
         ELSE [pc |-> "general", ru |-> <<>>]

\* Lines 482-483: gmail_service.search_emails(search_query); None is its
\* answer when it failed.
ExecSearch ==
    /\ xpc = "search"
    /\ \E emails \in {"None", "empty", "one", "many"} :
          /\ xlog' = Append(xlog, Event("search_emails", emails))
          /\ IF emails \in {"None", "empty"}
             THEN /\ xpc' = "search2"
                  /\ UNCHANGED xru
             ELSE /\ xpc' = AfterSearch(emails).pc
                  /\ xru' = xru \o AfterSearch(emails).ru
    /\ UNCHANGED <<execOthers, xtext, xreq, xdecision, xstatus, xplan, xcreated, xresumes>>

\* Lines 485-497: the second search, with the softer query.
ExecSearchAgain ==
    /\ xpc = "search2"
    /\ \E emails \in {"None", "empty", "one", "many"} :
          /\ xlog' = Append(xlog, Event("search_emails", emails))
          /\ xpc' = AfterSearch(emails).pc
          /\ xru' = xru \o AfterSearch(emails).ru
    /\ UNCHANGED <<execOthers, xtext, xreq, xdecision, xstatus, xplan, xcreated, xresumes>>

\* Lines 501-522: gmail_service.get_email_content(email_id).
ExecContent ==
    /\ xpc = "content"
    /\ \E content \in {"None", "content"} :
          /\ xlog' = Append(xlog, Event("get_email_content", content))
          /\ xru' = xru \o (IF content = "None" THEN <<"NoContent">> ELSE <<"EmailFound">>)
    /\ xpc' = "general"
    /\ UNCHANGED <<execOthers, xtext, xreq, xdecision, xstatus, xplan, xcreated, xresumes>>

\* Lines 534-552: the general summary, when the decision holds GENERAL or
\* a summary was asked for and there is no result yet.
ExecGeneral ==
    /\ xpc = "general"
    /\ IF xdecision.general \/ (xtext.summary /\ xru = <<>>)
       THEN \E emails \in {"None", "empty", "many"} :
              /\ xlog' = Append(xlog, Event("fetch_recent_unread_emails", emails))
              /\ xru' = xru \o
                    (CASE emails = "None" -> <<"AccessRequired">>
                       [] emails = "empty" -> <<"NoUnread">>
                       [] emails = "many" -> <<"InboxSummary">>)
       ELSE UNCHANGED <<xlog, xru>>
    /\ xpc' = "fin"
    /\ UNCHANGED <<execOthers, xtext, xreq, xdecision, xstatus, xplan, xcreated, xresumes>>

\* Lines 557-561: tasks[existing_index]["plan"] += result_update, saved.
ExecAppend ==
    /\ xpc = "fin"
    /\ xplan' = xplan \o xru
    /\ xpc' = "appended"
    /\ UNCHANGED <<execOthers, xtext, xreq, xlog, xru, xdecision, xstatus, xcreated, xresumes>>

\* Lines 563-564: update_task_status(task_id, "completed"); return True.
ExecComplete ==
    /\ xpc = "appended"
    /\ xstatus' = "completed"
    /\ xpc' = "done"
    /\ UNCHANGED <<execOthers, xtext, xreq, xlog, xru, xdecision, xplan, xcreated, xresumes>>

\* monitor_internet_queue, lines 591-606: online, the queued task is given
\* to a new execute_task_logic call with the record's requires_internet.
ExecResume ==
    /\ xpc = "requeued"
    /\ xresumes < MaxResumes
    /\ xresumes' = xresumes + 1
    /\ xpc' = "start"
    /\ xlog' = <<>>
    /\ xru' = <<>>
    /\ UNCHANGED <<execOthers, xtext, xreq, xdecision, xstatus, xplan, xcreated>>

ExecNext ==
    \/ ExecCall
    \/ ExecProbe
    \/ ExecCalendar
    \/ ExecCalendarProbe
    \/ ExecCreateEvent
    \/ ExecGmailProbe
    \/ ExecDecide
    \/ ExecSearch
    \/ ExecSearchAgain
    \/ ExecContent
    \/ ExecGeneral
    \/ ExecAppend
    \/ ExecComplete
    \/ ExecResume

ExecSpec == Init /\ [][ExecNext]_vars

\* The call is over: it returned True, it returned False after a re-queue,
\* or it returned False from the handler of line 566.
ExecEnded == xpc \in {"done", "requeued", "failed"}

IsNetworkCall(e) == e.ev \in NetworkCalls

IsProbe(e, res) == e.ev = "check_internet" /\ e.res = res

\* C22: every network call of an execute_task_logic call comes right after
\* a probe of that call that answered online: no other network call lies
\* between, and no probe serves two calls.
FreshProbeBeforeEachCall ==
    \A i \in 1..Len(xlog) :
        IsNetworkCall(xlog[i]) => (i > 1 /\ IsProbe(xlog[i - 1], "True"))

\* C26: a call that ends with the task re-queued has had no outside
\* effect: no calendar event was created and no mail capability called.
RequeuedWithoutSideEffect ==
    xpc = "requeued"
    => \A i \in 1..Len(xlog) :
          /\ xlog[i] # Event("create_event", "link")
          /\ xlog[i].ev \notin MailCalls

\* C27: over the whole life of a task, re-queues and resumed executions
\* included, create_event succeeds at most once.
AtMostOneEventCreated == xcreated <= 1

\* A capability call of this call failed, and not for want of
\* connectivity.
CapabilityFailed ==
    \E i \in 1..Len(xlog) :
        /\ IsNetworkCall(xlog[i])
        /\ xlog[i].res \in {"error", "None"}

\* C25: when a capability call failed while the probes answered online,
\* the call appends a failure text to the plan and the task is completed,
\* not queued.
FailureSurfaced ==
    (/\ ExecEnded
     /\ CapabilityFailed
     /\ \A i \in 1..Len(xlog) : ~IsProbe(xlog[i], "False"))
    => /\ xpc = "done"
       /\ xstatus = "completed"
       /\ \E j \in 1..Len(xru) : xru[j] \in FailureTexts
       /\ Len(xplan) >= Len(xru)
       /\ SubSeq(xplan, Len(xplan) - Len(xru) + 1, Len(xplan)) = xru

\* C28: a task execute_task_logic has completed has had a non-empty text
\* appended to its plan by that call, no later than the status.
CompletedHasResultText ==
    /\ xpc = "done" =>
          /\ xru # <<>>
          /\ Len(xplan) >= Len(xru)
          /\ SubSeq(xplan, Len(xplan) - Len(xru) + 1, Len(xplan)) = xru
    /\ (xstatus = "completed" /\ xpc # "none") => xpc = "done"

\* ------------------------------------------------------------------------
\* monitor_internet_queue(), the loop taken alone (MonitorSpec): tick after
\* tick, thread start by thread start, with the store as each tick finds
\* it.

TickCycle == 2
MaxQueued == 2

TaskStatuses == {"planned", "waiting_for_internet", "executing", "completed"}

\* What load_tasks may return: up to MaxQueued records, ids 1, 2, ...
Snapshots ==
    UNION {{[i \in 1..n |-> [id |-> i, status |-> f[i]]] : f \in [1..n -> TaskStatuses]} :
           n \in 0..MaxQueued}

monOthers == <<file, engineVars, storeVars, rejected, matchVars, routeVars,
               resolveVars, execVars, meetVars, timeVars>>

\* A handler that leaves the loop, for comparison.
AfterCaughtExit == "exited"

\* Lines 607-608: the handler logs; the loop goes on with the next turn.
AfterCaught == "sleep"

\* The tick is over.
TickEnds(online, snapshot, started, raised) ==
    /\ mlast' = [online |-> online, snap |-> snapshot, started |-> started,
                 raised |-> raised]
    /\ mraised' = (mraised \/ raised)
    /\ mpc' = IF raised THEN AfterCaught ELSE "sleep"
    /\ monline' = FALSE
    /\ msnap' = <<>>
    /\ mqueue' = <<>>
    /\ mnext' = 0
    /\ mstarted' = <<>>

\* Lines 589-594: the sleep, the probe, and online the read of the store
\* and the choice of the queued tasks (which raises when a stored element
\* is not a record).
MonitorTick ==
    /\ mpc = "sleep"
    /\ mtick' = (mtick + 1) % TickCycle
    /\ \E answer \in BOOLEAN :
          IF ~answer
          THEN TickEnds(FALSE, <<>>, <<>>, FALSE)
          ELSE \/ TickEnds(TRUE, <<>>, <<>>, TRUE)
               \/ \E snapshot \in Snapshots :
                     IF ToResume(snapshot) = <<>>
                     THEN TickEnds(TRUE, snapshot, <<>>, FALSE)
                     ELSE /\ monline' = TRUE
                          /\ msnap' = snapshot
                          /\ mqueue' = ToResume(snapshot)
                          /\ mnext' = 1
                          /\ mstarted' = <<>>
                          /\ mpc' = "starting"
                          /\ UNCHANGED <<mlast, mraised>>
    /\ UNCHANGED <<monOthers, mrunning, mexecfailed>>

\* Lines 597-606: one turn of the for loop: a thread is started for the
\* task and not waited for; Thread.start() raises when no thread can be
\* had.
MonitorStart ==
    /\ mpc = "starting"
    /\ \/ /\ TickEnds(monline, msnap, mstarted, TRUE)
          /\ UNCHANGED mrunning
       \/ LET task == mqueue[mnext]
              started == Append(mstarted, task.id)
          IN  /\ mrunning' = mrunning \cup {task.id}
              /\ IF mnext = Len(mqueue)
                 THEN TickEnds(monline, msnap, started, FALSE)
                 ELSE /\ mnext' = mnext + 1
                      /\ mstarted' = started
                      /\ UNCHANGED <<mpc, monline, msnap, mqueue, mlast, mraised>>
    /\ UNCHANGED <<monOthers, mtick, mexecfailed>>

\* A started execute_task_logic call ends: it returns, or it fails (lines
\* 566-569 catch what is raised inside; the thread ends either way).
MonitorExecutionEnds ==
    /\ \E id \in mrunning, failed \in BOOLEAN :
          /\ mrunning' = mrunning \ {id}
          /\ mexecfailed' = (mexecfailed \/ failed)
    /\ UNCHANGED <<monOthers, mpc, mtick, monline, msnap, mqueue, mnext, mstarted,
                   mlast, mraised>>

MonitorNext == MonitorTick \/ MonitorStart \/ MonitorExecutionEnds

\* The monitor is a thread of its own: it runs on whatever else does.
MonitorSpec ==
    /\ Init
    /\ [][MonitorNext]_vars
    /\ WF_vars(MonitorTick)
    /\ WF_vars(MonitorStart)

\* C23: the loop never ends: whatever a tick met, a read of the store or a
\* thread start that raised, a started execution that failed, another tick
\* follows.
MonitorTicksAgain ==
    /\ [](mpc \in {"sleep", "starting"})
    /\ \A k \in 0..(TickCycle - 1) : (mtick = k) ~> (mtick = (k + 1) % TickCycle)

\* After a tick that raised and an execution that failed, the next tick is
\* starting threads.
TickAfterFailures ==
    /\ mlast.raised
    /\ mexecfailed
    /\ mpc = "starting"

\* How many times id is in the sequence of ids.
Starts(ids, id) == Cardinality({j \in 1..Len(ids) : ids[j] = id})

NamesOfMain ==
    {"FAST_MODEL", "SMART_MODEL", "check_internet", "clean_email_body",
     "extract_event_details", "call_ollama"}

\* from main import ...: it raises ImportError when main lacks a name.
ImportFromMain(names) == names \subseteq NamesOfMain

\* The keywords of lines 201, 203 and 205.
ParticipantKeywords ==
    {<<"p", "a", "r", "t", "i", "c", "i", "p", "a", "n", "t">>,
    <<"w", "h", "o", " ", "j", "o", "i", "n", "e", "d">>,
    <<"w", "h", "o", " ", "w", "a", "s", " ", "i", "n">>,
    <<"w", "h", "o", " ", "a", "t", "t", "e", "n", "d", "e", "d">>,
    <<"a", "t", "t", "e", "n", "d", "e", "e">>,
    <<"h", "o", "w", " ", "m", "a", "n", "y", " ", "p", "e", "o", "p", "l", "e">>}
TranscriptKeywords ==
    {<<"t", "r", "a", "n", "s", "c", "r", "i", "p", "t">>,
    <<"w", "h", "a", "t", " ", "w", "a", "s", " ", "s", "a", "i", "d">>,
    <<"w", "h", "a", "t", " ", "d", "i", "d", " ", "t", "h", "e", "y", " ", "s", "a", "y">>,
    <<"c", "o", "n", "v", "e", "r", "s", "a", "t", "i", "o", "n">>}
CreateKeywords ==
    {<<"c", "r", "e", "a", "t", "e">>,
    <<"s", "t", "a", "r", "t", " ", "a", " ", "m", "e", "e", "t">>,
    <<"n", "e", "w", " ", "m", "e", "e", "t">>,
    <<"m", "a", "k", "e", " ", "a", " ", "m", "e", "e", "t">>,
    <<"g", "e", "n", "e", "r", "a", "t", "e", " ", "m", "e", "e", "t">>}

\* any(k in lowered for k in keywords)
AnyIn(keywords, lowered) == \E k \in keywords : InText(k, lowered)

\* Lines 200-206: the intent the keyword pre-check gives, "none" when no
\* keyword is in the text.
KeywordIntent(task_text) ==
    LET lowered == LowerText(task_text)
    IN  IF AnyIn(ParticipantKeywords, lowered) THEN "PARTICIPANTS"
        ELSE IF AnyIn(TranscriptKeywords, lowered) THEN "TRANSCRIPT"
        ELSE IF AnyIn(CreateKeywords, lowered) THEN "CREATE"
        ELSE "none"

\* The words the texts tried are made of.
MeetWords ==
    {<<"p", "a", "r", "t", "i", "c", "i", "p", "a", "n", "t", "s">>,
    <<"t", "r", "a", "n", "s", "c", "r", "i", "p", "t">>,
    <<"c", "r", "e", "a", "t", "e">>,
    <<"c", "o", "n", "v", "e", "r", "s", "a", "t", "i", "o", "n">>,
    <<"a", "t", "t", "e", "n", "d", "e", "e">>,
    <<"m", "e", "e", "t">>,
    <<"s", "h", "o", "w">>,
    <<"n", "e", "w">>,
    <<"t", "h", "e">>}

MeetTexts == MeetWords \cup {v \o <<" ">> \o w : v \in MeetWords, w \in MeetWords}

meetOthers == <<file, engineVars, storeVars, rejected, matchVars, routeVars,
                resolveVars, execVars, monVars, timeVars>>

\* The handler is called with a text.
MeetCall ==
    /\ hstatus = "none"
    /\ htext' \in MeetTexts
    /\ hstatus' = "called"
    /\ UNCHANGED <<meetOthers, hintent, hclassified>>

\* Lines 194-226: the import of line 194, the probe, the keyword
\* pre-check and, when no keyword is in the text, the classification by
\* the model.  main.py defines no call_llm: the import raises and the
\* call ends there.
MeetIntent ==
    /\ hstatus = "called"
    /\ IF ~ImportFromMain({"call_llm", "FAST_MODEL", "check_internet"})
       THEN /\ hstatus' = "raised"
            /\ UNCHANGED <<hintent, hclassified>>
       ELSE /\ hstatus' = "returned"
            /\ \E online \in BOOLEAN :
                  IF ~online
                  THEN UNCHANGED <<hintent, hclassified>>
                  ELSE IF KeywordIntent(htext) # "none"
                       THEN /\ hintent' = KeywordIntent(htext)
                            /\ UNCHANGED hclassified
                       ELSE /\ hintent' \in {"CREATE", "GET", "PARTICIPANTS",
                                             "TRANSCRIPT", "OTHER"}
                            /\ hclassified' = hclassified + 1
    /\ UNCHANGED <<meetOthers, htext>>

MeetNext == MeetCall \/ MeetIntent

MeetSpec == Init /\ [][MeetNext]_vars

Participants == <<"p", "a", "r", "t", "i", "c", "i", "p", "a", "n", "t">>
Transcript == <<"t", "r", "a", "n", "s", "c", "r", "i", "p", "t">>
Create == <<"c", "r", "e", "a", "t", "e">>

\* C33: in a call of the Meet handler that has ended, the model was asked
\* for the intent exactly when no keyword rule applies to the text, and
\* with keywords in the text the intent is the participants rule's before
\* the transcript rule's before the create rule's.
KeywordsBeforeClassifier ==
    hstatus \in {"returned", "raised"}
    => /\ hclassified = IF KeywordIntent(htext) = "none" THEN 1 ELSE 0
       /\ InText(Participants, htext) => hintent = "PARTICIPANTS"
       /\ (InText(Transcript, htext) /\ ~InText(Participants, htext))
             => hintent = "TRANSCRIPT"

\* The last answer of search_emails in this call, "none" when it was not
\* called.
\* ------------------------------------------------------------------------
\* TimeSpec: the time inputs of a task from its submission through its
\* executions.

MaxRestarts == 2

\* client_time and extracted_time are optional strings (lines 47-48).
TimeStrings == {"None", "T1", "T2"}

timeOthers == <<file, engineVars, storeVars, rejected, matchVars, routeVars,
                resolveVars, execVars, monVars, meetVars>>

\* A monitor that hands on what the record holds, for comparison.
MonitorArgsFromRecord(task) ==
    [client_time |-> "None", requires_internet |-> task.requires_internet,
     extracted_time |-> task.extracted_time]

\* Lines 601-606: args=(task["id"], task["original_request"], None,
\* req_net); extracted_time is left at its default (line 332).
MonitorArgs(task) ==
    [client_time |-> "None", requires_internet |-> task.requires_internet,
     extracted_time |-> "None"]

\* Lines 748-754 and 582: the submission hands the request's client_time
\* and extracted_time through background_task_simulation.
SubmitArgs(input, requires_internet) ==
    [client_time |-> input.client_time, requires_internet |-> requires_internet,
     extracted_time |-> input.extracted_time]

\* Lines 732-754: the record is saved and the first execution started.
TimeSubmit ==
    /\ tpc = "none"
    /\ \E client_time \in TimeStrings, extracted_time \in TimeStrings,
          requires_internet \in BOOLEAN, calendar \in BOOLEAN :
          LET input == [calendar |-> calendar, client_time |-> client_time,
                        extracted_time |-> extracted_time]
          IN  /\ tinput' = input
              /\ trecord' = [status |-> "planned",
                             requires_internet |-> requires_internet,
                             extracted_time |-> extracted_time]
              /\ texecs' = <<SubmitArgs(input, requires_internet)>>
    /\ tpc' = "executing"
    /\ UNCHANGED <<timeOthers, tdates>>

\* Lines 332-354 and after: the execution re-queues the task when it needs
\* the network and the probe fails, and completes it otherwise; a calendar
\* request has its date extracted from the call's time arguments.
TimeExecute ==
    /\ tpc = "executing"
    /\ \E online \in BOOLEAN :
          LET args == texecs[Len(texecs)]
          IN  IF args.requires_internet /\ ~online
              THEN /\ trecord' = [trecord EXCEPT !.status = "waiting_for_internet"]
                   /\ tpc' = "queued"
                   /\ UNCHANGED tdates
              ELSE /\ trecord' = [trecord EXCEPT !.status = "completed"]
                   /\ tpc' = "completed"
                   /\ tdates' = IF tinput.calendar
                                THEN Append(tdates,
                                            [client_time_str |-> args.client_time,
                                             extracted_time_override |-> args.extracted_time])
                                ELSE tdates
    /\ UNCHANGED <<timeOthers, tinput, texecs>>

\* Lines 597-606: the monitor starts an execution for the queued task.
TimeMonitorStart ==
    /\ tpc = "queued"
    /\ Len(texecs) <= MaxRestarts
    /\ texecs' = Append(texecs, MonitorArgs(trecord))
    /\ tpc' = "executing"
    /\ UNCHANGED <<timeOthers, tinput, trecord, tdates>>

TimeNext == TimeSubmit \/ TimeExecute \/ TimeMonitorStart

TimeSpec == Init /\ [][TimeNext]_vars

\* C37: every execution of a task, the ones the monitor starts included,
\* is given the client_time and the extracted_time of the submission.
SameTimeInputsOnRetry ==
    \A i \in 1..Len(texecs) :
        /\ texecs[i].client_time = tinput.client_time
        /\ texecs[i].extracted_time = tinput.extracted_time
        /\ \A j \in 1..Len(tdates) :
              /\ tdates[j].client_time_str = tinput.client_time
              /\ tdates[j].extracted_time_override = tinput.extracted_time

LastSearch ==
    LET S == {i \in 1..Len(xlog) : xlog[i].ev = "search_emails"}
    IN  IF S = {} THEN "none"
        ELSE xlog[CHOOSE i \in S : \A j \in S : j <= i].res

UnreadFetch ==
    LET S == {i \in 1..Len(xlog) : xlog[i].ev = "fetch_recent_unread_emails"}
    IN  IF S = {} THEN "none" ELSE xlog[CHOOSE i \in S : TRUE].res

InResult(text) == \E j \in 1..Len(xru) : xru[j] = text

\* C34: when the search or the fetch of unread mail gave its failure
\* value, the text of the completed call holds a failure message for it
\* and not the text of an empty search result or of an empty inbox.
MailFailureNotNoEmails ==
    xpc = "done"
    => /\ LastSearch = "None" => (~InResult("NoEmailsFound") /\ InResult("AccessRequired"))
       /\ UnreadFetch = "None" => (~InResult("NoUnread") /\ InResult("AccessRequired"))
\* ------------------------------------------------------------------------
\* C39: the status of every task in the store is one of planned,
\* waiting_for_internet, executing and completed.
StoredStatusKnown ==
    \A i \in 1..Len(file) : file[i].status \in TaskStatuses

\* The store holds a task that was queued and has been taken up again.
QueuedTaskExecuting ==
    \E i \in 1..Len(file) :
        /\ file[i].status = "executing"
        /\ retries[file[i].id] > 0

====
